---- MODULE Spec2Model ----
(***************************************************************************)
(* Model of the ARC AI Builder plugin: the CommandExecutor (execution      *)
(* engine, one worker thread per accepted execute call) and the            *)
(* ARCAIBuilderPlugin handlers that run on the host's main thread          *)
(* (generation, confirmation, re-confirmation, status updates, callbacks). *)
(*                                                                         *)
(* Threads.  The host's main thread runs one handler at a time; a handler  *)
(* is one action.  Every worker thread is a small program counter machine  *)
(* whose steps interleave freely with the handlers and with each other.    *)
(* Workers share with the main thread only is_running, current_progress,   *)
(* total_commands, the scheduler queue and the command sink.               *)
(***************************************************************************)
EXTENDS Integers, Sequences, FiniteSets, TLC

VARIABLES
    \* ---- CommandExecutor ----
    is_running,            \* self.is_running
    current_progress,      \* self.current_progress
    total_commands,        \* self.total_commands
    threads,               \* every worker thread ever started, in start order
    scheduler,             \* server.scheduler: tasks posted for the main thread (FIFO)
    sink,                  \* commands applied by server.dispatch_command, in order:
                           \* <<thread, index of the command, calling context>>
    \* ---- ARCAIBuilderPlugin ----
    economy_plugin,        \* TRUE iff an economy plugin was found
    money,                 \* the ledger: balance of each player
    building_records,      \* self.building_records  {building_id: record}
    building_coordinates,  \* self.building_coordinates {building_id: (x, y, z)}
    next_building_id,      \* self.next_building_id
    request_positions,     \* self.request_positions {request_id: request data}
    next_request_id,       \* self.next_request_id
    player_requests,       \* self.player_requests {player_name: request}
    generating,            \* planner threads in flight
    panels,                \* confirm panels that carry a confirm button
    \* ---- history (not program state) ----
    load,                  \* the planning done so far, as MaxLoad measures it
    tally,                 \* for every request id and every record id that was
                           \* confirmed: the debits made and kept, the records
                           \* created and the worker threads started by its
                           \* confirmations
    lastAttempt            \* in the state a confirmation handler, the submit
                           \* handler or a failure task leaves: what it did;
                           \* in every other state: NoAttempt

engineVars == <<is_running, current_progress, total_commands, threads, scheduler, sink>>
pluginVars == <<economy_plugin, money, building_records, building_coordinates,
                next_building_id, request_positions, next_request_id,
                player_requests, generating, panels, load>>
vars == <<is_running, current_progress, total_commands, threads, scheduler, sink,
          economy_plugin, money, building_records, building_coordinates,
          next_building_id, request_positions, next_request_id,
          player_requests, generating, panels, load, tally, lastAttempt>>

(***************************************************************************)
(* Bounds of the model.                                                    *)
(***************************************************************************)
MaxCmds == 2          \* longest command list
MaxCost == 1          \* largest cost the planner quotes
InitialMoney == 2     \* every player's opening balance
MaxLoad == 5          \* the planning done in one behaviour: 2 for every build
                      \* request made plus the length of every plan returned
MaxTokens == 3        \* the tokens of a command made of the tokens, in a plan
                      \* given as text
MaxRecords == 2       \* the records made in one behaviour of the record store
                      \* driven on its own
MaxWork == 3          \* over the worker threads a client of the engine starts
                      \* in one behaviour, the sum of (length of the command
                      \* list + 1)

Players == {"alice"}
CmdLens == 0..MaxCmds
Costs == 0..MaxCost

(***************************************************************************)
(* Values.                                                                 *)
(***************************************************************************)
NoPos == <<>>                     \* center_pos is None
Origin == <<0, 64, 0>>            \* a captured player position
NoneStr == "None"                 \* a None where a string is expected
NoneCmds == -1                    \* commands is None
NoRecord == [id |-> 0]            \* record is None
Dimensions == {"Overworld", NoneStr}
FirstBuildingId == 1
FirstRequestId == 1
DefaultSize == 10
PendingCap == 10                  \* records[:10]
MinBuildingSize == 1              \* setting min_building_size
MaxBuildingSize == 64             \* setting max_building_size
ValueError == -1                  \* int() raised ValueError
\* The sizes a player submits: the bounds, their neighbours and the default,
\* as a number or as a text that is no number.
Sizes == {MinBuildingSize - 1, MinBuildingSize, DefaultSize, MaxBuildingSize,
          MaxBuildingSize + 1}
SizeInputs == [numeric : {TRUE}, value : Sizes] \cup {[numeric |-> FALSE, value |-> 0]}
Requirements == {"house", " "}

\* The execution contexts: the host's main thread, which runs the handlers
\* and the tasks of the scheduler, and the threads the plugin starts itself.
MainContext == "main"
WorkerContext == "worker"

\* f without key k / f with key k bound to v (Python del d[k], d[k] = v)
DictDel(f, k) == [x \in (DOMAIN f) \ {k} |-> f[x]]
DictSet(f, k, v) == [x \in (DOMAIN f) \cup {k} |-> IF x = k THEN v ELSE f[x]]
EmptyDict == [x \in {} |-> 0]

SetMin(S) == CHOOSE x \in S : \A y \in S : x <= y

(***************************************************************************)
(* CommandExecutor.                                                        *)
(*                                                                         *)
(* A worker thread is a record                                             *)
(*   pc        where the thread stands in _execute_commands_thread:        *)
(*             "start"       started, first statement not yet run          *)
(*             "loop"        at the head of the for loop                   *)
(*             "dispatching" is_running polled true for command i+1; the   *)
(*                           command is being transformed and dispatched   *)
(*             "complete"    the loop is left, the completion callback is  *)
(*                           about to be posted                            *)
(*             "finally"     in the finally clause                         *)
(*             "done"        returned                                      *)
(*   commands  the length of its command list                              *)
(*   player_name, center_pos   its other arguments                         *)
(*   results   one entry for each command the loop has passed: TRUE when   *)
(*             its dispatch returned, FALSE when it raised; the loop       *)
(*             index i of the code is Len(results)                         *)
(* and history fields, which no step reads to decide what to do:           *)
(*   broke       the loop was left by the break of the is_running poll     *)
(*   completePosted   completion callbacks posted to the scheduler         *)
(*   cancelSeen  stop_execution was called after this thread was started   *)
(*               and before it returned                                    *)
(*   building_id the record the plugin started this execution for (0 when  *)
(*               the engine was called directly)                           *)
(***************************************************************************)
\* Every step that is not a confirmation handler leaves no attempt behind.
NoAttempt == [kind |-> "none"]
NoConfirmation == lastAttempt' = NoAttempt /\ tally' = tally

NewThread(commands, player_name, center_pos, building_id) ==
    [pc |-> "start", commands |-> commands, player_name |-> player_name,
     center_pos |-> center_pos, results |-> <<>>, broke |-> FALSE,
     completePosted |-> 0, cancelSeen |-> FALSE, building_id |-> building_id]

ThreadIds == 1..Len(threads)
\* dispatch calls thread t has made
Attempts(t) == Len(threads[t].results) + (IF threads[t].pc = "dispatching" THEN 1 ELSE 0)
\* the sum, over the threads ths, of the length of the command list plus one
RECURSIVE Work(_)
Work(ths) == IF ths = <<>> THEN 0 ELSE Head(ths).commands + 1 + Work(Tail(ths))
\* the thread is between its first statement and its finally clause
InRun(t) == threads[t].pc \in {"loop", "dispatching", "complete"}

\* execute_commands_async: the threads after the call.  A call made while
\* is_running is true returns at once; otherwise one more thread is started.
ExecuteCommandsAsync(ths, commands, player_name, center_pos, building_id) ==
    IF is_running
        THEN ths
        ELSE Append(ths, NewThread(commands, player_name, center_pos, building_id))

\* stop_execution as seen by the threads: the flag is cleared by the caller;
\* the history field marks every thread that was live at the call.
MarkCancel(ths) ==
    [t \in DOMAIN ths |->
        IF ths[t].pc # "done" THEN [ths[t] EXCEPT !.cancelSeen = TRUE] ELSE ths[t]]

ThreadStartNoOriginGuard(t) ==
    /\ threads[t].pc = "start"
    /\ is_running' = TRUE
    /\ total_commands' = threads[t].commands
    /\ current_progress' = 0
    /\ threads' = [threads EXCEPT ![t].pc = "loop"]
    /\ UNCHANGED <<scheduler, sink>>
    /\ UNCHANGED pluginVars
    /\ NoConfirmation

\* Lines 47-58: the first statements of the thread up to the loop.  The three
\* assignments are one step: no other thread reads total_commands or
\* current_progress between them except the callbacks, which see the same
\* values as just before the step.
ThreadStart(t) ==
    /\ threads[t].pc = "start"
    /\ is_running' = TRUE
    /\ total_commands' = threads[t].commands
    /\ current_progress' = 0
    /\ threads' = [threads EXCEPT ![t].pc =
                        IF threads[t].center_pos = NoPos THEN "finally" ELSE "loop"]
    /\ UNCHANGED <<scheduler, sink>>
    /\ UNCHANGED pluginVars
    /\ NoConfirmation

\* Lines 60-62: the head of the for loop and the poll of is_running.
LoopHead(t) ==
    /\ threads[t].pc = "loop"
    /\ threads' = [threads EXCEPT ![t] =
            IF Len(@.results) = @.commands THEN [@ EXCEPT !.pc = "complete"]
            ELSE IF ~is_running THEN [@ EXCEPT !.pc = "complete", !.broke = TRUE]
            ELSE [@ EXCEPT !.pc = "dispatching"]]
    /\ UNCHANGED <<is_running, current_progress, total_commands, scheduler, sink>>
    /\ UNCHANGED pluginVars
    /\ NoConfirmation

\* (a variant in which a dispatch that raises ends the run, as it would
\* without the try of line 64)
DispatchReturnAbortsOnRaise(t, ok) ==
    /\ threads[t].pc = "dispatching"
    /\ IF ok
          THEN /\ sink' = Append(sink, <<t, Len(threads[t].results) + 1, WorkerContext>>)
               /\ current_progress' = Len(threads[t].results) + 1
               /\ scheduler' = Append(scheduler,
                       [type |-> "progress", player_name |-> threads[t].player_name,
                        thread |-> t])
          ELSE UNCHANGED <<sink, current_progress, scheduler>>
    /\ threads' = [threads EXCEPT ![t].pc = IF ok THEN "loop" ELSE "finally",
                                  ![t].results = Append(@, ok)]
    /\ UNCHANGED <<is_running, total_commands>>
    /\ UNCHANGED pluginVars
    /\ NoConfirmation

\* Lines 64-94: dispatch_command returns (ok) or raises (~ok).  When it
\* returns, the progress counter is set and the progress callback posted;
\* when it raises, the except clause goes on with the next command.
DispatchReturn(t, ok) ==
    /\ threads[t].pc = "dispatching"
    /\ IF ok
          THEN /\ sink' = Append(sink, <<t, Len(threads[t].results) + 1, WorkerContext>>)
               /\ current_progress' = Len(threads[t].results) + 1
               /\ scheduler' = Append(scheduler,
                       [type |-> "progress", player_name |-> threads[t].player_name,
                        thread |-> t])
          ELSE UNCHANGED <<sink, current_progress, scheduler>>
    /\ threads' = [threads EXCEPT ![t].pc = "loop", ![t].results = Append(@, ok)]
    /\ UNCHANGED <<is_running, total_commands>>
    /\ UNCHANGED pluginVars
    /\ NoConfirmation

\* (a variant that leaves the loop without posting the completion callback)
PostCompleteSilent(t) ==
    /\ threads[t].pc = "complete"
    /\ threads' = [threads EXCEPT ![t].pc = "finally"]
    /\ UNCHANGED <<is_running, current_progress, total_commands, scheduler, sink>>
    /\ UNCHANGED pluginVars
    /\ NoConfirmation

\* Lines 96-107: after the loop, however it was left, the completion
\* callback is posted.
PostComplete(t) ==
    /\ threads[t].pc = "complete"
    /\ scheduler' = Append(scheduler,
            [type |-> "complete", player_name |-> threads[t].player_name, thread |-> t])
    /\ threads' = [threads EXCEPT ![t].pc = "finally", ![t].completePosted = @ + 1]
    /\ UNCHANGED <<is_running, current_progress, total_commands, sink>>
    /\ UNCHANGED pluginVars
    /\ NoConfirmation

\* Lines 104-110: scheduler.run_task raises when the completion callback is
\* to be posted (the host is shutting down, say); the except clause of line
\* 109 logs the error and the thread goes on to its finally clause.
PostCompleteRaises(t) ==
    /\ threads[t].pc = "complete"
    /\ threads' = [threads EXCEPT ![t].pc = "finally"]
    /\ UNCHANGED <<is_running, current_progress, total_commands, scheduler, sink>>
    /\ UNCHANGED pluginVars
    /\ NoConfirmation

\* (a variant of the finally clause that leaves the flag as it is)
ThreadFinallyKeepsFlag(t) ==
    /\ threads[t].pc = "finally"
    /\ threads' = [threads EXCEPT ![t].pc = "done"]
    /\ UNCHANGED <<is_running, current_progress, total_commands, scheduler, sink>>
    /\ UNCHANGED pluginVars
    /\ NoConfirmation

\* Lines 111-112: the finally clause.
ThreadFinally(t) ==
    /\ threads[t].pc = "finally"
    /\ is_running' = FALSE
    /\ threads' = [threads EXCEPT ![t].pc = "done"]
    /\ UNCHANGED <<current_progress, total_commands, scheduler, sink>>
    /\ UNCHANGED pluginVars
    /\ NoConfirmation

ThreadStep ==
    \E t \in ThreadIds :
        \/ ThreadStart(t)
        \/ LoopHead(t)
        \/ \E ok \in BOOLEAN : DispatchReturn(t, ok)
        \/ PostComplete(t)
        \/ ThreadFinally(t)

(***************************************************************************)
(* ARCAIBuilderPlugin: the handlers of the main thread.                    *)
(*                                                                         *)
(* A handler is sequential code over several stores, so its helpers are    *)
(* written as functions from a working copy st of the stores to the        *)
(* working copy after the call.  st also holds:                            *)
(*   ok, id      the value the last helper returned (a bool / a building   *)
(*               id, 0 for None)                                           *)
(*   msgs        the messages sent to the player so far                    *)
(*   debited, credited, record, started, saveFailed                        *)
(*               history: the ledger was debited / credited, the id of the *)
(*               record created, a worker thread was started, the          *)
(*               record-save step returned None                            *)
(***************************************************************************)
Cur ==
    [money |-> money, records |-> building_records, coords |-> building_coordinates,
     next_id |-> next_building_id, positions |-> request_positions,
     requests |-> player_requests, threads |-> threads,
     ok |-> TRUE, id |-> 0, msgs |-> <<>>,
     debited |-> FALSE, credited |-> FALSE, record |-> 0, started |-> FALSE,
     saveFailed |-> FALSE]

\* player.send_message(...)
Say(st, m) == [st EXCEPT !.msgs = Append(@, m)]

\* The messages, by what they tell the player.
MsgInsufficientFunds == "InsufficientFunds"      \* "余额不足，无法建造！"
MsgDebitFailed == "DebitFailed"                  \* "扣费失败，无法建造！"
MsgPositionLost == "PositionLost"                \* "❌ 建筑位置信息丢失，无法建造！"
MsgRequestExpired == "RequestExpired"            \* "建筑请求已过期，请重新开始。"
MsgSaveFailedRefunded == "SaveFailedRefunded"    \* "保存建筑记录失败，已退款。"
MsgCoordsMissingRefunded == "CoordsMissingRefunded" \* "❌ 建筑记录坐标信息缺失，无法建造！已退款。"
MsgCommandsEmpty == "CommandsEmpty"              \* "建筑指令为空，无法执行！"
MsgBadBuildingId == "BadBuildingId"              \* "建筑记录ID错误，无法执行！"
MsgBadPosition == "BadPosition"                  \* "建筑位置错误，无法执行！"
MsgRecordMissing == "RecordMissing"              \* "❌ 建筑记录不存在，无法执行建筑指令！"
MsgExecuting == "Executing"                      \* "🏗️ 建筑指令已开始执行，请耐心等待..."
MsgGenerationFailed == "GenerationFailed"        \* "❌ AI生成建筑指令失败：{error_msg}"
MsgGenerationError == "GenerationError"          \* "❌ 生成建筑指令时发生错误：{str(e)}"
MsgShowErrorFailed == "ShowErrorFailed"          \* "显示错误信息时出错，请重试。"
MsgBuildStarted == "BuildStarted"                \* "✅ 建造已开始！预计成本：..."

TerminalStatuses == {"completed", "failed"}

\* The economy plugin's two API functions may raise.  api says, for one run
\* of a handler, which of them work: api.get for api_get_player_money,
\* api.change for api_change_player_money (which serves debit and credit).
Apis == [get : BOOLEAN, change : BOOLEAN]

\* _get_player_money: 0 without an economy plugin or when the ledger call
\* raises, else the balance.
GetPlayerMoney(st, player_name, api) ==
    IF ~economy_plugin THEN 0
    ELSE IF ~api.get THEN 0
    ELSE st.money[player_name]

\* _deduct_money: st.ok is its return value.
DeductMoneyAppliedThoughFailed(st, player_name, amount, api) ==
    IF ~economy_plugin THEN [st EXCEPT !.ok = FALSE]
    ELSE IF amount <= 0 THEN [st EXCEPT !.ok = FALSE]
    ELSE IF ~api.change THEN [st EXCEPT !.money[player_name] = @ - amount, !.ok = FALSE]
    ELSE [st EXCEPT !.money[player_name] = @ - amount, !.ok = TRUE, !.debited = TRUE]

\* (a variant for which a debit of nothing succeeds before the ledger is
\* looked for)
DeductMoneyOfNothingSucceeds(st, player_name, amount, api) ==
    IF amount <= 0 THEN [st EXCEPT !.ok = TRUE]
    ELSE IF ~economy_plugin THEN [st EXCEPT !.ok = FALSE]
    ELSE IF ~api.change THEN [st EXCEPT !.ok = FALSE]
    ELSE [st EXCEPT !.money[player_name] = @ - amount, !.ok = TRUE, !.debited = TRUE]

DeductMoney(st, player_name, amount, api) ==
    IF ~economy_plugin THEN [st EXCEPT !.ok = FALSE]
    ELSE IF amount <= 0 THEN [st EXCEPT !.ok = FALSE]
    ELSE IF ~api.change THEN [st EXCEPT !.ok = FALSE]
    ELSE [st EXCEPT !.money[player_name] = @ - amount, !.ok = TRUE, !.debited = TRUE]

\* _add_money: st.ok is its return value (which no caller reads).
AddMoneyForgotten(st, player_name, amount, api) ==
    [st EXCEPT !.ok = FALSE]

AddMoney(st, player_name, amount, api) ==
    IF ~economy_plugin THEN [st EXCEPT !.ok = FALSE]
    ELSE IF amount <= 0 THEN [st EXCEPT !.ok = FALSE]
    ELSE IF ~api.change THEN [st EXCEPT !.ok = FALSE]
    ELSE [st EXCEPT !.money[player_name] = @ + amount, !.ok = TRUE, !.credited = TRUE]

\* (a variant that clears the coordinate cache whatever the new status is)
UpdateBuildingStatusAlwaysClears(st, building_id, status) ==
    IF building_id = 0 THEN st
    ELSE IF building_id \in DOMAIN st.records
        THEN [st EXCEPT
                !.records = [@ EXCEPT ![building_id].status = status,
                                      ![building_id].completed_time =
                                          IF status \in TerminalStatuses THEN "set" ELSE @],
                !.coords = DictDel(@, building_id)]
        ELSE st

\* (a variant without the time stamp of lines 1253-1254)
UpdateBuildingStatusNoStamp(st, building_id, status) ==
    IF building_id = 0 THEN st
    ELSE IF building_id \in DOMAIN st.records
        THEN [st EXCEPT
                !.records = [@ EXCEPT ![building_id].status = status],
                !.coords = IF status \in TerminalStatuses /\ building_id \in DOMAIN @
                               THEN DictDel(@, building_id) ELSE @]
        ELSE st

\* _update_building_status
UpdateBuildingStatus(st, building_id, status) ==
    IF building_id = 0 THEN st
    ELSE IF building_id \in DOMAIN st.records
        THEN [st EXCEPT
                !.records = [@ EXCEPT ![building_id].status = status,
                                      ![building_id].completed_time =
                                          IF status \in TerminalStatuses THEN "set" ELSE @],
                !.coords = IF status \in TerminalStatuses /\ building_id \in DOMAIN @
                               THEN DictDel(@, building_id) ELSE @]
        ELSE st

\* The record both record-creating places build (lines 873-889, 1069-1085).
BuildingData(building_id, player_name, center_pos, dimension, size, requirements, estimated_cost, commands) ==
    [id |-> building_id, player_name |-> player_name, center_pos |-> center_pos,
     dimension |-> dimension, size |-> size, requirements |-> requirements,
     estimated_cost |-> estimated_cost, commands |-> commands,
     status |-> "building", completed_time |-> NoneStr]

\* _save_building_record: st.id is its return value, 0 for None.  A request
\* with a None among its required values is refused before an id is taken.
SaveBuildingRecord(st, player_name, request) ==
    IF \/ request.center_pos = NoPos
       \/ request.dimension = NoneStr
       \/ request.commands = NoneCmds
        THEN [st EXCEPT !.id = 0, !.saveFailed = TRUE]
        ELSE LET building_id == st.next_id
             IN [st EXCEPT
                    !.next_id = @ + 1,
                    !.records = DictSet(@, building_id,
                        BuildingData(building_id, player_name, request.center_pos,
                                     request.dimension, request.size,
                                     request.requirements, request.estimated_cost,
                                     request.commands)),
                    !.coords = DictSet(@, building_id, request.center_pos),
                    !.id = building_id,
                    !.record = building_id]

\* Lines 276-283 / 1216-1223: hand the commands to the engine, then set the
\* record to building.
StartExecution(st, player_name, commands, building_id, center_pos) ==
    LET ths == ExecuteCommandsAsync(st.threads, commands, player_name, center_pos,
                                    building_id)
        s1 == [st EXCEPT !.threads = ths, !.started = Len(ths) > Len(st.threads)]
    IN Say(UpdateBuildingStatus(s1, building_id, "building"), MsgExecuting)

\* _execute_building_commands_direct
ExecuteBuildingCommandsDirect(st, player_name, commands, building_id, center_pos) ==
    IF commands = NoneCmds
        THEN UpdateBuildingStatus(Say(st, MsgCommandsEmpty), building_id, "failed")
    ELSE IF building_id = 0
        THEN Say(st, MsgBadBuildingId)
    ELSE IF center_pos = NoPos
        THEN UpdateBuildingStatus(Say(st, MsgBadPosition), building_id, "failed")
    ELSE StartExecution(st, player_name, commands, building_id, center_pos)

\* _execute_building_commands: the position comes from the stored record.
ExecuteBuildingCommands(st, player_name, commands, building_id) ==
    IF commands = NoneCmds
        THEN UpdateBuildingStatus(Say(st, MsgCommandsEmpty), building_id, "failed")
    ELSE IF building_id = 0
        THEN Say(st, MsgBadBuildingId)
    ELSE IF building_id \in DOMAIN st.records
        THEN StartExecution(st, player_name, commands, building_id,
                            st.records[building_id].center_pos)
    ELSE Say(st, MsgRecordMissing)

\* (a variant of the confirmation of a generated plan that leaves the request
\* tracked, as without the del of line 897)
ConfirmBuildingOutcomeKeepsRequest(st, player_name, commands, estimated_cost, request_id, api) ==
    IF GetPlayerMoney(st, player_name, api) < estimated_cost
        THEN Say(st, MsgInsufficientFunds)
    ELSE LET s1 == DeductMoney(st, player_name, estimated_cost, api) IN
    IF ~s1.ok
        THEN Say(s1, MsgDebitFailed)
    ELSE IF request_id # 0 /\ request_id \in DOMAIN s1.positions
        THEN LET request_data == s1.positions[request_id]
                 building_id == s1.next_id
                 s2 == [s1 EXCEPT
                          !.next_id = @ + 1,
                          !.records = DictSet(@, building_id,
                              BuildingData(building_id, player_name,
                                           request_data.center_pos, request_data.dimension,
                                           request_data.size, request_data.requirements,
                                           estimated_cost, commands)),
                          !.record = building_id]
                 s3 == ExecuteBuildingCommandsDirect(s2, player_name, commands,
                                                     building_id, request_data.center_pos)
             IN Say(s3, MsgBuildStarted)
        ELSE Say(s1, MsgPositionLost)

\* (a variant of the confirmation of a generated plan that builds the record
\* from the request cached for the player, when there is one, instead of the
\* request tracked under the id of the confirmation)
ConfirmBuildingOutcomeFromCache(st, player_name, commands, estimated_cost, request_id, api) ==
    IF GetPlayerMoney(st, player_name, api) < estimated_cost
        THEN Say(st, MsgInsufficientFunds)
    ELSE LET s1 == DeductMoney(st, player_name, estimated_cost, api) IN
    IF ~s1.ok
        THEN Say(s1, MsgDebitFailed)
    ELSE IF request_id # 0 /\ request_id \in DOMAIN s1.positions
        THEN LET request_data == IF player_name \in DOMAIN s1.requests
                                     THEN s1.requests[player_name]
                                     ELSE s1.positions[request_id]
                 building_id == s1.next_id
                 s2 == [s1 EXCEPT
                          !.next_id = @ + 1,
                          !.records = DictSet(@, building_id,
                              BuildingData(building_id, player_name,
                                           request_data.center_pos, request_data.dimension,
                                           request_data.size, request_data.requirements,
                                           estimated_cost, commands)),
                          !.record = building_id]
                 s3 == ExecuteBuildingCommandsDirect(s2, player_name, commands,
                                                     building_id, request_data.center_pos)
                 s4 == [s3 EXCEPT !.positions = DictDel(@, request_id)]
             IN Say(s4, MsgBuildStarted)
        ELSE Say(s1, MsgPositionLost)

\* (a variant of the confirmation of a generated plan that stops tracking
\* the request when it rejects the confirmation)
ConfirmBuildingOutcomeDropsRejected(st, player_name, commands, estimated_cost, request_id, api) ==
    IF GetPlayerMoney(st, player_name, api) < estimated_cost
        THEN Say([st EXCEPT !.positions = DictDel(@, request_id)], MsgInsufficientFunds)
    ELSE LET s1 == DeductMoney(st, player_name, estimated_cost, api) IN
    IF ~s1.ok
        THEN Say([s1 EXCEPT !.positions = DictDel(@, request_id)], MsgDebitFailed)
    ELSE IF request_id # 0 /\ request_id \in DOMAIN s1.positions
        THEN LET request_data == s1.positions[request_id]
                 building_id == s1.next_id
                 s2 == [s1 EXCEPT
                          !.next_id = @ + 1,
                          !.records = DictSet(@, building_id,
                              BuildingData(building_id, player_name,
                                           request_data.center_pos, request_data.dimension,
                                           request_data.size, request_data.requirements,
                                           estimated_cost, commands)),
                          !.record = building_id]
                 s3 == ExecuteBuildingCommandsDirect(s2, player_name, commands,
                                                     building_id, request_data.center_pos)
                 s4 == [s3 EXCEPT !.positions = DictDel(@, request_id)]
             IN Say(s4, MsgBuildStarted)
        ELSE Say(s1, MsgPositionLost)

\* _confirm_building called with commands and a cost (lines 845-905): the
\* confirm button of the panel shown after generation.
ConfirmBuildingOutcome(st, player_name, commands, estimated_cost, request_id, api) ==
    IF GetPlayerMoney(st, player_name, api) < estimated_cost
        THEN Say(st, MsgInsufficientFunds)
    ELSE LET s1 == DeductMoney(st, player_name, estimated_cost, api) IN
    IF ~s1.ok
        THEN Say(s1, MsgDebitFailed)
    ELSE IF request_id # 0 /\ request_id \in DOMAIN s1.positions
        THEN LET request_data == s1.positions[request_id]
                 building_id == s1.next_id
                 s2 == [s1 EXCEPT
                          !.next_id = @ + 1,
                          !.records = DictSet(@, building_id,
                              BuildingData(building_id, player_name,
                                           request_data.center_pos, request_data.dimension,
                                           request_data.size, request_data.requirements,
                                           estimated_cost, commands)),
                          !.record = building_id]
                 s3 == ExecuteBuildingCommandsDirect(s2, player_name, commands,
                                                     building_id, request_data.center_pos)
                 s4 == [s3 EXCEPT !.positions = DictDel(@, request_id)]
             IN Say(s4, MsgBuildStarted)
        ELSE Say(s1, MsgPositionLost)

\* _confirm_building called without commands (lines 907-941): the request
\* cached for the player by the last successful generation.
ConfirmCachedOutcome(st, player_name, api) ==
    IF player_name \notin DOMAIN st.requests
        THEN Say(st, MsgRequestExpired)
    ELSE LET request == st.requests[player_name]
             estimated_cost == request.estimated_cost IN
    IF GetPlayerMoney(st, player_name, api) < estimated_cost
        THEN Say(st, MsgInsufficientFunds)
    ELSE LET s1 == DeductMoney(st, player_name, estimated_cost, api) IN
    IF ~s1.ok
        THEN Say(s1, MsgDebitFailed)
    ELSE LET s2 == SaveBuildingRecord(s1, player_name, request) IN
    IF s2.id = 0
        THEN Say(AddMoney(s2, player_name, estimated_cost, api), MsgSaveFailedRefunded)
    ELSE LET s3 == ExecuteBuildingCommands(s2, player_name, request.commands, s2.id)
             s4 == [s3 EXCEPT !.requests = DictDel(@, player_name)]
         IN Say(s4, MsgBuildStarted)

\* _confirm_building_with_record: re-confirmation of a stored record.  Every
\* stored record carries its three coordinates, so the refund of lines
\* 197-201 needs a record without them.
ConfirmWithRecordOutcome(st, player_name, commands, estimated_cost, record, api) ==
    IF GetPlayerMoney(st, player_name, api) < estimated_cost
        THEN Say(st, MsgInsufficientFunds)
    ELSE LET s1 == DeductMoney(st, player_name, estimated_cost, api) IN
    IF ~s1.ok
        THEN Say(s1, MsgDebitFailed)
    ELSE IF record.center_pos = NoPos
        THEN Say(AddMoney(s1, player_name, estimated_cost, api), MsgCoordsMissingRefunded)
    ELSE LET request == [center_pos |-> record.center_pos, dimension |-> record.dimension,
                         size |-> record.size, requirements |-> record.requirements,
                         commands |-> commands, estimated_cost |-> estimated_cost]
             s2 == SaveBuildingRecord(s1, player_name, request) IN
    IF s2.id = 0
        THEN Say(AddMoney(s2, player_name, estimated_cost, api), MsgSaveFailedRefunded)
    ELSE LET s3 == IF record.id \in DOMAIN s2.records
                       THEN [s2 EXCEPT !.records = DictDel(@, record.id)]
                       ELSE s2
             s4 == ExecuteBuildingCommands(s3, player_name, commands, s2.id)
         IN Say(s4, MsgBuildStarted)

\* The tally after a confirmation of key k with outcome o.
NoTally == [debits |-> 0, records |-> 0, executions |-> 0]
\* (a debit that the same handler run refunds is not kept)
Tallied(f, k, o) ==
    LET old == IF k \in DOMAIN f THEN f[k] ELSE NoTally
    IN DictSet(f, k,
           [debits |-> old.debits + (IF o.debited /\ ~o.credited THEN 1 ELSE 0),
            records |-> old.records + (IF o.record # 0 THEN 1 ELSE 0),
            executions |-> old.executions + (IF o.started THEN 1 ELSE 0)])

\* A confirmation handler's outcome o becomes the next state; lastAttempt
\* records what the handler was called with (the cost, whether the request id
\* was tracked), what it found (the player's balance, the next record id, the
\* record ids, the running flag) and what it did.  A worker thread started
\* for a plan that is executed once more (replayed) counts as planning: 2
\* plus its length.
Commit(o, kind, key, player_name, estimated_cost, tracked, replayed) ==
    /\ money' = o.money
    /\ building_records' = o.records
    /\ building_coordinates' = o.coords
    /\ next_building_id' = o.next_id
    /\ request_positions' = o.positions
    /\ player_requests' = o.requests
    /\ threads' = o.threads
    /\ load' = IF replayed /\ o.started
                   THEN load + 2 + o.threads[Len(o.threads)].commands
                   ELSE load
    /\ load' <= MaxLoad
    /\ tally' = Tallied(tally, <<kind, key>>, o)
    /\ lastAttempt' =
          [kind |-> kind, player_name |-> player_name,
           estimated_cost |-> estimated_cost, tracked |-> tracked,
           money_before |-> money[player_name],
           next_id_before |-> next_building_id,
           ids_before |-> DOMAIN building_records,
           busy |-> is_running,
           debited |-> o.debited, credited |-> o.credited, record |-> o.record,
           started |-> o.started, saveFailed |-> o.saveFailed, msgs |-> o.msgs]
    /\ UNCHANGED <<is_running, current_progress, total_commands, scheduler, sink,
                   economy_plugin, next_request_id, generating>>

\* _show_build_confirm_panel: the panels after the call.  The confirm button
\* is added only when the balance covers the cost; its closure holds the
\* commands, the cost and either the request id of a generated plan (record
\* is None) or a stored record (request_id is None, 0 here).
ShowBuildConfirmPanel(ps, player_name, commands, estimated_cost, record, request_id, api) ==
    IF GetPlayerMoney(Cur, player_name, api) >= estimated_cost
        THEN ps \cup {[player_name |-> player_name, commands |-> commands,
                       estimated_cost |-> estimated_cost, record |-> record,
                       request_id |-> request_id]}
        ELSE ps

\* The host calls the on_click closure of a confirm button (line 820).  The
\* closure outlives the press, so the host may call it again.
ConfirmBuilding(p, api) ==
    /\ p \in panels
    /\ p.record = NoRecord
    /\ UNCHANGED panels
    /\ Commit(ConfirmBuildingOutcome(Cur, p.player_name, p.commands, p.estimated_cost,
                                     p.request_id, api),
              "confirm", p.request_id, p.player_name, p.estimated_cost,
              p.request_id \in DOMAIN request_positions, FALSE)

\* _confirm_building with its default arguments.
ConfirmCached(player_name, api) ==
    /\ Commit(ConfirmCachedOutcome(Cur, player_name, api), "cached", 0, player_name,
              IF player_name \in DOMAIN player_requests
                  THEN player_requests[player_name].estimated_cost ELSE 0,
              player_name \in DOMAIN player_requests, TRUE)
    /\ UNCHANGED panels

\* What the closure of a confirm button holds of a stored record: the dict
\* itself, of which the handler behind the button reads the id, the
\* coordinates, the dimension, the size and the requirements.  None of these
\* is ever changed after the record is made.
Held(record) ==
    [id |-> record.id, center_pos |-> record.center_pos,
     dimension |-> record.dimension, size |-> record.size,
     requirements |-> record.requirements]

\* The button of the rebuild panel for stored record building_id (lines
\* 164-169): the confirm panel is shown with the record, its commands and its
\* cost.  (The rebuild panel lists the records of status pending; the button
\* and the handlers behind it do not look at the status.)
ShowRebuildConfirm(building_id, api) ==
    /\ building_id \in DOMAIN building_records
    /\ LET record == building_records[building_id]
       IN panels' = ShowBuildConfirmPanel(panels, record.player_name, record.commands,
                                          record.estimated_cost, Held(record), 0, api)
    /\ panels' # panels
    /\ UNCHANGED engineVars
    /\ UNCHANGED <<economy_plugin, money, building_records, building_coordinates,
                   next_building_id, request_positions, next_request_id,
                   player_requests, generating, load>>
    /\ NoConfirmation

\* The host calls the on_click closure of the confirm button of a panel shown
\* for a stored record (line 814): the player re-confirms the record the
\* closure holds, with the commands and the cost it holds.
ConfirmWithRecord(p, api) ==
    /\ p \in panels
    /\ p.record # NoRecord
    /\ Commit(ConfirmWithRecordOutcome(Cur, p.player_name, p.commands,
                                       p.estimated_cost, p.record, api),
              "reconfirm", p.record.id, p.player_name, p.estimated_cost,
              p.record.id \in DOMAIN building_records, TRUE)
    /\ UNCHANGED panels

\* _start_building_generation (lines 687-774): a request id is taken, the
\* request is tracked and a planner thread is started.  (lastAttempt and
\* tally are left to the caller.)
BeginGeneration(player_name, dimension, size, requirements) ==
    /\ load + 2 <= MaxLoad
    /\ load' = load + 2
    /\ LET request_id == next_request_id
           request_data == [center_pos |-> Origin, dimension |-> dimension,
                            size |-> size, requirements |-> requirements,
                            player_name |-> player_name]
       IN /\ next_request_id' = next_request_id + 1
          /\ request_positions' = DictSet(request_positions, request_id, request_data)
          /\ generating' = generating \cup {[request_id |-> request_id] @@ request_data}
    /\ UNCHANGED engineVars
    /\ UNCHANGED <<economy_plugin, money, building_records, building_coordinates,
                   next_building_id, player_requests, panels>>

\* _start_building_generation for a request of the default size
StartBuildingGeneration(player_name, dimension) ==
    /\ BeginGeneration(player_name, dimension, DefaultSize, "house")
    /\ NoConfirmation

\* handle_build_submit (lines 442-617): the player submits the build form.
\* The size arrives as text; int(size_str) raises ValueError for a text that
\* is not a number (lines 553-554).
ParseInt(size_str) == IF size_str.numeric THEN size_str.value ELSE ValueError
\* requirements.strip() (line 603)
Strip(requirements) == IF requirements = " " THEN "" ELSE requirements

\* (the size check with both bounds excluded)
SizeInBoundsExclusive(size) == size > MinBuildingSize /\ size < MaxBuildingSize

\* The size check of line 568, with the two bounds as they are configured.
SizeInBounds(size) == ~(size < MinBuildingSize \/ size > MaxBuildingSize)

\* The error forms of the submit handler, by what they tell the player.
ErrInvalidSize == "InvalidSize"                \* "建筑范围必须是{min}-{max}之间的数字！"
ErrEmptyRequirements == "EmptyRequirements"    \* "请描述你的建筑需求！"
NoError == "NoError"

\* The form the submit handler answers with, if any.
SubmitError(size_str, requirements) ==
    IF ParseInt(size_str) = ValueError THEN ErrInvalidSize
    ELSE IF ~SizeInBounds(ParseInt(size_str)) THEN ErrInvalidSize
    ELSE IF Strip(requirements) = "" THEN ErrEmptyRequirements
    ELSE NoError

HandleBuildSubmit(player_name, size_str, requirements) ==
    /\ IF SubmitError(size_str, requirements) = NoError
          THEN BeginGeneration(player_name, "Overworld", ParseInt(size_str), requirements)
          ELSE /\ UNCHANGED engineVars
               /\ UNCHANGED pluginVars
    /\ tally' = tally
    /\ lastAttempt' =
          [kind |-> "submit", player_name |-> player_name, size_str |-> size_str,
           requirements |-> requirements,
           error |-> SubmitError(size_str, requirements),
           next_request_id_before |-> next_request_id,
           request_ids_before |-> DOMAIN request_positions,
           generating_before |-> generating]

\* (a variant in which the planner thread writes the request cache itself
\* instead of leaving it to the task it posts)
PlannerReturnCachesItself(g, success, commands, estimated_cost) ==
    /\ g \in generating
    /\ generating' = generating \ {g}
    /\ load' = IF success THEN load + commands ELSE load
    /\ load' <= MaxLoad
    /\ scheduler' = Append(scheduler,
          IF success
              THEN [type |-> "update_ui", player_name |-> g.player_name, gen |-> g,
                    commands |-> commands, estimated_cost |-> estimated_cost]
              ELSE [type |-> "update_ui_failed", player_name |-> g.player_name,
                    gen |-> g])
    /\ player_requests' =
          IF success
              THEN DictSet(player_requests, g.player_name,
                       [center_pos |-> g.center_pos, dimension |-> g.dimension,
                        size |-> g.size, requirements |-> g.requirements,
                        commands |-> commands, estimated_cost |-> estimated_cost])
              ELSE player_requests
    /\ UNCHANGED <<is_running, current_progress, total_commands, threads, sink>>
    /\ UNCHANGED <<economy_plugin, money, building_records, building_coordinates,
                   next_building_id, request_positions, next_request_id, panels>>
    /\ NoConfirmation

\* generate_in_thread (lines 706-749): the planner returns commands and a
\* cost (success) or an error result; either way the thread only posts
\* update_ui for the main thread ("update_ui_failed" is update_ui with
\* success false).
PlannerReturn(g, success, commands, estimated_cost) ==
    /\ g \in generating
    /\ generating' = generating \ {g}
    /\ load' = IF success THEN load + commands ELSE load
    /\ load' <= MaxLoad
    /\ scheduler' = Append(scheduler,
          IF success
              THEN [type |-> "update_ui", player_name |-> g.player_name, gen |-> g,
                    commands |-> commands, estimated_cost |-> estimated_cost]
              ELSE [type |-> "update_ui_failed", player_name |-> g.player_name,
                    gen |-> g])
    /\ UNCHANGED <<is_running, current_progress, total_commands, threads, sink>>
    /\ UNCHANGED <<economy_plugin, money, building_records, building_coordinates,
                   next_building_id, request_positions, next_request_id,
                   player_requests, panels>>
    /\ NoConfirmation

\* generate_in_thread (lines 751-770): the planner call, or anything after it
\* in the try block, raises; the thread posts show_error for the main thread.
PlannerRaises(g) ==
    /\ g \in generating
    /\ generating' = generating \ {g}
    /\ scheduler' = Append(scheduler,
          [type |-> "show_error", player_name |-> g.player_name, gen |-> g])
    /\ UNCHANGED <<is_running, current_progress, total_commands, threads, sink>>
    /\ UNCHANGED <<economy_plugin, money, building_records, building_coordinates,
                   next_building_id, request_positions, next_request_id,
                   player_requests, panels, load>>
    /\ NoConfirmation

\* What update_ui with success false tells the player (lines 741-742): the
\* planner's error message.
UpdateUiFailedMessage == MsgGenerationFailed
\* What show_error tells the player (lines 758-767).  Its first message
\* formats str(e), and e is the target of the except clause of line 751:
\* when that clause is left the name is unbound, and show_error runs after
\* it (as a task of the main thread), so str(e) raises NameError and the
\* handler's own except clause sends the fallback message instead.
ShowErrorMessage(e_bound) == IF e_bound THEN MsgGenerationError ELSE MsgShowErrorFailed
\* what a failure task tells the player
Notice(task) ==
    [kind |-> "notice", player_name |-> task.player_name,
     request_id |-> task.gen.request_id, task |-> task.type,
     message |-> IF task.type = "update_ui_failed" THEN UpdateUiFailedMessage
                 ELSE ShowErrorMessage(FALSE)]

\* _on_build_complete: the first record, in the order of the dict, of the
\* player with status building is set to completed.  Records are inserted
\* with increasing ids, so the first one is the one with the least id.
OnBuildComplete(st, player_name) ==
    LET ids == {b \in DOMAIN st.records :
                    /\ st.records[b].player_name = player_name
                    /\ st.records[b].status = "building"}
    IN IF ids # {} THEN UpdateBuildingStatus(st, SetMin(ids), "completed") ELSE st

\* The main thread runs the oldest task of the scheduler.
RunTask(api) ==
    /\ scheduler # <<>>
    /\ LET task == Head(scheduler)
       IN /\ scheduler' = Tail(scheduler)
          /\ IF task.type = "complete"
                THEN LET o == OnBuildComplete(Cur, task.player_name)
                     IN /\ building_records' = o.records
                        /\ building_coordinates' = o.coords
                        /\ UNCHANGED <<player_requests, panels>>
             ELSE IF task.type = "update_ui"
                THEN /\ player_requests' = DictSet(player_requests, task.player_name,
                            [center_pos |-> task.gen.center_pos,
                             dimension |-> task.gen.dimension,
                             size |-> task.gen.size,
                             requirements |-> task.gen.requirements,
                             commands |-> task.commands,
                             estimated_cost |-> task.estimated_cost])
                     /\ panels' = ShowBuildConfirmPanel(panels, task.player_name,
                                      task.commands, task.estimated_cost,
                                      NoRecord, task.gen.request_id, api)
                     /\ UNCHANGED <<building_records, building_coordinates>>
             ELSE UNCHANGED <<building_records, building_coordinates,
                              player_requests, panels>>
    /\ UNCHANGED <<is_running, current_progress, total_commands, threads, sink>>
    /\ UNCHANGED <<economy_plugin, money, next_building_id, request_positions,
                   next_request_id, generating, load>>
    /\ tally' = tally
    /\ lastAttempt' = IF Head(scheduler).type \in {"update_ui_failed", "show_error"}
                         THEN Notice(Head(scheduler))
                         ELSE NoAttempt

\* on_disable (lines 112-121)
OnDisable ==
    /\ is_running' = FALSE
    /\ threads' = MarkCancel(threads)
    /\ building_records' = EmptyDict
    /\ request_positions' = EmptyDict
    /\ UNCHANGED <<current_progress, total_commands, scheduler, sink>>
    /\ UNCHANGED <<economy_plugin, money, building_coordinates, next_building_id,
                   next_request_id, player_requests, generating, panels, load>>
    /\ NoConfirmation

\* (a variant of the reload that also starts the record ids anew, as if
\* on_load were run again)
ReloadResetsIds ==
    /\ \A t \in ThreadIds : threads[t].pc = "done"
    /\ scheduler = <<>>
    /\ is_running' = FALSE
    /\ current_progress' = 0
    /\ total_commands' = 0
    /\ building_records' = EmptyDict
    /\ request_positions' = EmptyDict
    /\ next_building_id' = FirstBuildingId
    /\ UNCHANGED <<threads, scheduler, sink>>
    /\ UNCHANGED <<economy_plugin, money, building_coordinates,
                   next_request_id, player_requests, generating, panels, load>>
    /\ NoConfirmation

\* The host reloads the plugin: on_disable (lines 112-121) followed by
\* on_enable (lines 91-110), which makes a new CommandExecutor.  Taken when
\* every worker thread of the old executor has returned and the scheduler is
\* empty, so that nothing is left that still refers to the old executor.
\* on_load is not run again: the id counters keep their values.
Reload ==
    /\ \A t \in ThreadIds : threads[t].pc = "done"
    /\ scheduler = <<>>
    /\ is_running' = FALSE
    /\ current_progress' = 0
    /\ total_commands' = 0
    /\ building_records' = EmptyDict
    /\ request_positions' = EmptyDict
    /\ UNCHANGED <<threads, scheduler, sink>>
    /\ UNCHANGED <<economy_plugin, money, building_coordinates, next_building_id,
                   next_request_id, player_requests, generating, panels, load>>
    /\ NoConfirmation

(***************************************************************************)
(* The engine's own interface, for the specification of the engine alone.  *)
(***************************************************************************)
\* execute_commands_async called by any client
Execute(commands, player_name, center_pos) ==
    /\ Work(threads) + commands + 1 <= MaxWork
    /\ threads' = ExecuteCommandsAsync(threads, commands, player_name, center_pos, 0)
    /\ UNCHANGED <<is_running, current_progress, total_commands, scheduler, sink>>
    /\ UNCHANGED pluginVars
    /\ NoConfirmation

\* stop_execution (lines 114-118)
StopExecution ==
    /\ is_running' = FALSE
    /\ threads' = MarkCancel(threads)
    /\ UNCHANGED <<current_progress, total_commands, scheduler, sink>>
    /\ UNCHANGED pluginVars
    /\ NoConfirmation

(***************************************************************************)
(* Specifications.                                                         *)
(***************************************************************************)
\* __init__ of the executor, on_load and on_enable of the plugin
Init ==
    /\ is_running = FALSE
    /\ current_progress = 0
    /\ total_commands = 0
    /\ threads = <<>>
    /\ scheduler = <<>>
    /\ sink = <<>>
    /\ economy_plugin \in BOOLEAN
    /\ money = [p \in Players |-> InitialMoney]
    /\ building_records = EmptyDict
    /\ building_coordinates = EmptyDict
    /\ next_building_id = FirstBuildingId
    /\ request_positions = EmptyDict
    /\ next_request_id = FirstRequestId
    /\ player_requests = EmptyDict
    /\ generating = {}
    /\ panels = {}
    /\ load = 0
    /\ tally = EmptyDict
    /\ lastAttempt = NoAttempt

\* The plugin with its engine, as the panels drive it.
Next ==
    \/ \E p \in Players : StartBuildingGeneration(p, "Overworld")
    \/ \E g \in generating, ok \in BOOLEAN, c \in CmdLens, k \in Costs :
            PlannerReturn(g, ok, c, k)
    \/ \E api \in Apis : RunTask(api)
    \/ \E p \in panels, api \in Apis : ConfirmBuilding(p, api)
    \/ ThreadStep

Spec == Init /\ [][Next]_vars

\* The plugin with its engine when every dispatch returns, nobody cancels,
\* every worker thread keeps running until it returns and the main thread
\* runs every task posted to the scheduler.
ThreadRuns(t) ==
    /\ t \in ThreadIds
    /\ \/ ThreadStart(t)
       \/ LoopHead(t)
       \/ DispatchReturn(t, TRUE)
       \/ PostComplete(t)
       \/ ThreadFinally(t)

NextLive ==
    \/ \E p \in Players : StartBuildingGeneration(p, "Overworld")
    \/ \E g \in generating, ok \in BOOLEAN, c \in CmdLens, k \in Costs :
            PlannerReturn(g, ok, c, k)
    \/ \E api \in Apis : RunTask(api)
    \/ \E p \in panels, api \in Apis : ConfirmBuilding(p, api)
    \/ \E t \in 1..MaxLoad : ThreadRuns(t)

SpecLive ==
    /\ Init
    /\ [][NextLive]_vars
    /\ \A t \in 1..MaxLoad : WF_vars(ThreadRuns(t))
    /\ WF_vars(\E api \in Apis : RunTask(api))

\* The two confirmation handlers that take a stored record or the cached
\* request, called as handlers in their own right.  They start from the state
\* a first build leaves behind: the player asked for a build in dimension d,
\* the planner returned c commands at cost k, the player confirmed, and the
\* build ran to its end and was marked completed.  (threads, sink and load,
\* which tell the story of a behaviour, start anew.)
InitHandlers ==
    \E p \in Players, d \in Dimensions, c \in CmdLens, k \in Costs \ {0} :
        /\ k <= InitialMoney
        /\ is_running = FALSE
        /\ current_progress = c
        /\ total_commands = c
        /\ threads = <<>>
        /\ scheduler = <<>>
        /\ sink = <<>>
        /\ economy_plugin = TRUE
        /\ money = [q \in Players |-> IF q = p THEN InitialMoney - k ELSE InitialMoney]
        /\ building_records =
              DictSet(EmptyDict, FirstBuildingId,
                  [BuildingData(FirstBuildingId, p, Origin, d, DefaultSize, "house", k, c)
                      EXCEPT !.status = "completed", !.completed_time = "set"])
        /\ building_coordinates = EmptyDict
        /\ next_building_id = FirstBuildingId + 1
        /\ request_positions = EmptyDict
        /\ next_request_id = FirstRequestId + 1
        /\ player_requests =
              DictSet(EmptyDict, p,
                  [center_pos |-> Origin, dimension |-> d, size |-> DefaultSize,
                   requirements |-> "house", commands |-> c, estimated_cost |-> k])
        /\ generating = {}
        /\ panels = {[player_name |-> p, commands |-> c, estimated_cost |-> k,
                      record |-> NoRecord, request_id |-> FirstRequestId]}
        /\ load = 0
        /\ tally = DictSet(EmptyDict, <<"confirm", FirstRequestId>>,
                           [debits |-> 1, records |-> 1, executions |-> 1])
        /\ lastAttempt = NoAttempt

NextHandlers ==
    \/ \E p \in Players, api \in Apis : ConfirmCached(p, api)
    \/ \E b \in DOMAIN building_records, api \in Apis : ShowRebuildConfirm(b, api)
    \/ \E p \in panels, api \in Apis : ConfirmWithRecord(p, api)
    \/ \E api \in Apis : RunTask(api)
    \/ ThreadStep

SpecHandlers == InitHandlers /\ [][NextHandlers]_vars

\* The plugin over its life after generation: the confirmation of generated
\* plans, the panels and handlers for stored records and for the cached
\* request, and reloads.  It starts from the state a generation leaves
\* behind: the player asked for a build, the planner returned c commands at
\* cost k, the plan was cached and its confirm panel shown; nothing is
\* confirmed yet.
InitLifecycle ==
    \E p \in Players, c \in CmdLens, k \in Costs \ {0} :
        LET request_data == [center_pos |-> Origin, dimension |-> "Overworld",
                             size |-> DefaultSize, requirements |-> "house",
                             player_name |-> p]
        IN  /\ k <= InitialMoney
            /\ 2 + c <= MaxLoad
            /\ is_running = FALSE
            /\ current_progress = 0
            /\ total_commands = 0
            /\ threads = <<>>
            /\ scheduler = <<>>
            /\ sink = <<>>
            /\ economy_plugin = TRUE
            /\ money = [q \in Players |-> InitialMoney]
            /\ building_records = EmptyDict
            /\ building_coordinates = EmptyDict
            /\ next_building_id = FirstBuildingId
            /\ request_positions = DictSet(EmptyDict, FirstRequestId, request_data)
            /\ next_request_id = FirstRequestId + 1
            /\ player_requests =
                  DictSet(EmptyDict, p,
                      [center_pos |-> Origin, dimension |-> "Overworld",
                       size |-> DefaultSize, requirements |-> "house",
                       commands |-> c, estimated_cost |-> k])
            /\ generating = {}
            /\ panels = {[player_name |-> p, commands |-> c, estimated_cost |-> k,
                          record |-> NoRecord, request_id |-> FirstRequestId]}
            /\ load = 2 + c
            /\ tally = EmptyDict
            /\ lastAttempt = NoAttempt

NextLifecycle ==
    \/ \E api \in Apis : RunTask(api)
    \/ \E p \in panels, api \in Apis : ConfirmBuilding(p, api)
    \/ \E p \in Players, api \in Apis : ConfirmCached(p, api)
    \/ \E b \in DOMAIN building_records, api \in Apis : ShowRebuildConfirm(b, api)
    \/ \E p \in panels, api \in Apis : ConfirmWithRecord(p, api)
    \/ Reload
    \/ \E t \in 1..MaxLoad : ThreadRuns(t)

SpecLifecycle == InitLifecycle /\ [][NextLifecycle]_vars

\* The re-confirmation of stored records on its own.  A record of c commands
\* at cost k is stored (a first build made it and ran to its end) and the
\* player's balance is InitialMoney.
InitRebuild ==
    \E p \in Players, c \in CmdLens, k \in Costs \ {0} :
        /\ k <= InitialMoney
        /\ is_running = FALSE
        /\ current_progress = c
        /\ total_commands = c
        /\ threads = <<>>
        /\ scheduler = <<>>
        /\ sink = <<>>
        /\ economy_plugin = TRUE
        /\ money = [q \in Players |-> InitialMoney]
        /\ building_records =
              DictSet(EmptyDict, FirstBuildingId,
                  [BuildingData(FirstBuildingId, p, Origin, "Overworld", DefaultSize,
                                "house", k, c)
                      EXCEPT !.status = "completed", !.completed_time = "set"])
        /\ building_coordinates = EmptyDict
        /\ next_building_id = FirstBuildingId + 1
        /\ request_positions = EmptyDict
        /\ next_request_id = FirstRequestId + 1
        /\ player_requests = EmptyDict
        /\ generating = {}
        /\ panels = {}
        /\ load = 0
        /\ tally = EmptyDict
        /\ lastAttempt = NoAttempt

NextRebuild ==
    \/ \E b \in DOMAIN building_records, api \in Apis : ShowRebuildConfirm(b, api)
    \/ \E p \in panels, api \in Apis : ConfirmWithRecord(p, api)
    \/ \E api \in Apis : RunTask(api)
    \/ ThreadStep

SpecRebuild == InitRebuild /\ [][NextRebuild]_vars

\* The plugin enabled without an economy plugin (lines 296-310), after a
\* session that had one: the record store and the tracker are empty
\* (on_disable), the ids go on, the request cached for the player is still
\* there, and so are the confirm panels of the old session, one for request
\* FirstRequestId and one for record FirstBuildingId.
InitNoLedger ==
    \E p \in Players, c \in CmdLens, k \in Costs :
        /\ 2 + c <= MaxLoad
        /\ is_running = FALSE
        /\ current_progress = 0
        /\ total_commands = 0
        /\ threads = <<>>
        /\ scheduler = <<>>
        /\ sink = <<>>
        /\ economy_plugin = FALSE
        /\ money = [q \in Players |-> InitialMoney]
        /\ building_records = EmptyDict
        /\ building_coordinates = EmptyDict
        /\ next_building_id = FirstBuildingId + 1
        /\ request_positions = EmptyDict
        /\ next_request_id = FirstRequestId + 1
        /\ player_requests =
              DictSet(EmptyDict, p,
                  [center_pos |-> Origin, dimension |-> "Overworld",
                   size |-> DefaultSize, requirements |-> "house",
                   commands |-> c, estimated_cost |-> k])
        /\ generating = {}
        /\ panels = {[player_name |-> p, commands |-> c, estimated_cost |-> k,
                      record |-> NoRecord, request_id |-> FirstRequestId],
                     [player_name |-> p, commands |-> c, estimated_cost |-> k,
                      record |-> Held(BuildingData(FirstBuildingId, p, Origin, "Overworld",
                                                   DefaultSize, "house", k, c)),
                      request_id |-> 0]}
        /\ load = 2 + c
        /\ tally = EmptyDict
        /\ lastAttempt = NoAttempt

NextNoLedger ==
    \/ \E p \in Players : StartBuildingGeneration(p, "Overworld")
    \/ \E g \in generating, ok \in BOOLEAN, c \in CmdLens, k \in Costs :
            PlannerReturn(g, ok, c, k)
    \/ \E api \in Apis : RunTask(api)
    \/ \E p \in panels, api \in Apis : ConfirmBuilding(p, api)
    \/ \E p \in Players, api \in Apis : ConfirmCached(p, api)
    \/ \E p \in panels, api \in Apis : ConfirmWithRecord(p, api)

SpecNoLedger == InitNoLedger /\ [][NextNoLedger]_vars

\* The record store and the coordinate cache driven on their own, through
\* the two methods that write them.
\* The clock of line 1042 has a resolution of one second: the time of a new
\* record is the time of the latest record, or later.  Here the records
\* carry their created_time, which the rebuild panel sorts by.
LatestTime ==
    IF building_records = EmptyDict THEN 0
    ELSE CHOOSE t \in {building_records[b].created_time : b \in DOMAIN building_records} :
            \A b \in DOMAIN building_records : building_records[b].created_time <= t
Clock == {LatestTime, LatestTime + 1}

\* _save_building_record called for a request of the player at current_time
SaveRecord(player_name, commands, estimated_cost, current_time) ==
    /\ next_building_id < FirstBuildingId + MaxRecords
    /\ LET o == SaveBuildingRecord(Cur, player_name,
                    [center_pos |-> Origin, dimension |-> "Overworld",
                     size |-> DefaultSize, requirements |-> "house",
                     commands |-> commands, estimated_cost |-> estimated_cost])
       IN /\ building_records' =
                [o.records EXCEPT ![o.id] = @ @@ [created_time |-> current_time]]
          /\ building_coordinates' = o.coords
          /\ next_building_id' = o.next_id
    /\ UNCHANGED engineVars
    /\ UNCHANGED <<economy_plugin, money, request_positions, next_request_id,
                   player_requests, generating, panels, load>>
    /\ NoConfirmation

\* _update_building_status called with a record id (0 for None) and a status
SetStatus(building_id, status) ==
    /\ LET o == UpdateBuildingStatus(Cur, building_id, status)
       IN /\ building_records' = o.records
          /\ building_coordinates' = o.coords
    /\ UNCHANGED engineVars
    /\ UNCHANGED <<economy_plugin, money, next_building_id, request_positions,
                   next_request_id, player_requests, generating, panels, load>>
    /\ tally' = tally
    /\ lastAttempt' = [kind |-> "status", building_id |-> building_id, status |-> status]

\* records.sort(key=created_time, reverse=True) (line 149): the sort is
\* stable, so of two records with the same created_time the one that comes
\* first in the list stays first.  InsertByTime puts r, which comes after
\* every record of sorted in the list, behind every record that is not older.
InsertByTime(sorted, r) ==
    LET keep == {i \in 1..Len(sorted) : sorted[i].created_time >= r.created_time}
        n == Cardinality(keep)
    IN SubSeq(sorted, 1, n) \o <<r>> \o SubSeq(sorted, n + 1, Len(sorted))
RECURSIVE SortNewestFirst(_)
SortNewestFirst(records) ==
    IF records = <<>> THEN <<>>
    ELSE InsertByTime(SortNewestFirst(SubSeq(records, 1, Len(records) - 1)),
                      records[Len(records)])

\* The loop of lines 143-146 over the dict, which keeps the order of
\* insertion; records are inserted with increasing ids.
RECURSIVE ItemsFrom(_, _)
ItemsFrom(records, b) ==
    IF \A x \in DOMAIN records : x < b THEN <<>>
    ELSE IF b \in DOMAIN records THEN <<records[b]>> \o ItemsFrom(records, b + 1)
    ELSE ItemsFrom(records, b + 1)
Pending(records, player_name) ==
    SelectSeq(ItemsFrom(records, FirstBuildingId),
              LAMBDA r : r.player_name = player_name /\ r.status = "pending")

\* The records the rebuild panel offers the player (lines 143-150).
ListPending(records, player_name) ==
    LET sorted == SortNewestFirst(Pending(records, player_name))
    IN SubSeq(sorted, 1, IF Len(sorted) < PendingCap THEN Len(sorted) ELSE PendingCap)

\* _show_rebuild_panel: the player opens the list of pending designs.
ShowRebuildPanel(player_name) ==
    /\ UNCHANGED engineVars
    /\ UNCHANGED pluginVars
    /\ tally' = tally
    /\ lastAttempt' =
          [kind |-> "list", player_name |-> player_name,
           ids |-> [i \in DOMAIN ListPending(building_records, player_name) |->
                       ListPending(building_records, player_name)[i].id]]

\* The statuses of a record (the record store is written with building,
\* completed and failed; the rebuild panel reads pending).
Statuses == {"pending", "building", "completed", "failed"}
Requesters == Players \cup {"bob"}

InitStore == Init /\ economy_plugin = TRUE

NextStore ==
    \/ \E p \in Requesters, now \in Clock : SaveRecord(p, MaxCmds, MaxCost, now)
    \/ \E p \in Requesters : ShowRebuildPanel(p)
    \/ \E b \in 0..(FirstBuildingId + MaxRecords), status \in Statuses :
            SetStatus(b, status)

SpecStore == InitStore /\ [][NextStore]_vars

\* The plugin with its engine and a planner whose call may also raise.
NextPlanner ==
    \/ \E p \in Players : StartBuildingGeneration(p, "Overworld")
    \/ \E g \in generating, ok \in BOOLEAN, c \in CmdLens, k \in Costs :
            PlannerReturn(g, ok, c, k)
    \/ \E g \in generating : PlannerRaises(g)
    \/ \E api \in Apis : RunTask(api)
    \/ \E p \in panels, api \in Apis : ConfirmBuilding(p, api)
    \/ ThreadStep

SpecPlanner == Init /\ [][NextPlanner]_vars

\* The build form and the planner: requests are submitted and planned.
NextSubmit ==
    \/ \E p \in Players, size_str \in SizeInputs, r \in Requirements :
            HandleBuildSubmit(p, size_str, r)
    \/ \E g \in generating, ok \in BOOLEAN, c \in CmdLens, k \in Costs :
            PlannerReturn(g, ok, c, k)

SpecSubmit == Init /\ [][NextSubmit]_vars

\* From the build form to the record: requests of two kinds, a house of
\* the least size and a tower of the default size, are submitted, planned,
\* shown and confirmed.  (The workers the confirmations start do not run
\* here.)
BuildForms ==
    {[size_str |-> [numeric |-> TRUE, value |-> MinBuildingSize], requirements |-> "house"],
     [size_str |-> [numeric |-> TRUE, value |-> DefaultSize], requirements |-> "tower"]}

NextRequests ==
    \/ \E p \in Players, form \in BuildForms :
            HandleBuildSubmit(p, form.size_str, form.requirements)
    \/ \E g \in generating, ok \in BOOLEAN, c \in CmdLens, k \in Costs :
            PlannerReturn(g, ok, c, k)
    \/ \E api \in Apis : RunTask(api)
    \/ \E p \in panels, api \in Apis : ConfirmBuilding(p, api)

SpecRequests == InitStore /\ [][NextRequests]_vars

\* The planner's quote is whatever number its answer holds under
\* "estimated_cost", and 0 when it holds none (OpenAIManager.py line 273):
\* here the quotes run below 0 as far as they run above it.  Plans are
\* shown and confirmed, from the button and from the cached request, with
\* and without an economy plugin.
Quotes == (0 - MaxCost)..MaxCost

NextQuotes ==
    \/ \E p \in Players : StartBuildingGeneration(p, "Overworld")
    \/ \E g \in generating, ok \in BOOLEAN, c \in CmdLens, k \in Quotes :
            PlannerReturn(g, ok, c, k)
    \/ \E api \in Apis : RunTask(api)
    \/ \E p \in panels, api \in Apis : ConfirmBuilding(p, api)
    \/ \E p \in Players, api \in Apis : ConfirmCached(p, api)

SpecQuotes == Init /\ [][NextQuotes]_vars

(***************************************************************************)
(* The two text transformations of the engine.  A command is a sequence of *)
(* characters.                                                             *)
(***************************************************************************)
Spaces == {" "}                   \* \s, of the characters used here
Digits == <<"0", "1", "2", "3", "4", "5", "6", "7", "8", "9">>
DigitChars == {Digits[i] : i \in DOMAIN Digits}
DigitValue(c) == (CHOOSE i \in DOMAIN Digits : Digits[i] = c) - 1

\* the first index from i on whose character is not in class, Len(s) + 1 if
\* there is none: the end of a greedy class+ that starts at i
SpanEnd(class, s, i) ==
    LET stops == {j \in i..Len(s) : s[j] \notin class}
    IN IF stops = {} THEN Len(s) + 1 ELSE SetMin(stops)
\* the first index from i on whose character is in class, 0 if there is none
FirstIndex(class, s, i) ==
    LET hits == {j \in i..Len(s) : s[j] \in class}
    IN IF hits = {} THEN 0 ELSE SetMin(hits)

\* re.sub(r'\[<prefix>[^\]]{min,}\]', '', s) from index i on: the leftmost
\* matches, none overlapping, are dropped.
RECURSIVE StripGroupsFrom(_, _, _, _)
StripGroupsFrom(s, prefix, min, i) ==
    IF i > Len(s) THEN <<>>
    ELSE LET body == i + 1 + Len(prefix)
             close == FirstIndex({"]"}, s, body)
             matches == /\ s[i] = "["
                        /\ body - 1 <= Len(s)
                        /\ SubSeq(s, i + 1, body - 1) = prefix
                        /\ close # 0
                        /\ close - body >= min
         IN IF matches THEN StripGroupsFrom(s, prefix, min, close + 1)
            ELSE <<s[i]>> \o StripGroupsFrom(s, prefix, min, i + 1)
StripGroups(s, prefix, min) == StripGroupsFrom(s, prefix, min, 1)

\* re.sub(r'\s+\d+$', '', s) (line 155): a run of digits that ends the
\* string goes, with the whitespace before it, if there is whitespace
\* before it.
RemoveTrailingNumber(s) ==
    LET nondigits == {j \in 1..Len(s) : s[j] \notin DigitChars}
        d == IF nondigits = {} THEN 1 ELSE 1 + CHOOSE j \in nondigits : \A x \in nondigits : x <= j
        nonspaces == {j \in 1..(d - 1) : s[j] \notin Spaces}
        w == IF nonspaces = {} THEN 1 ELSE 1 + CHOOSE j \in nonspaces : \A x \in nonspaces : x <= j
    IN IF d <= Len(s) /\ w < d THEN SubSeq(s, 1, w - 1) ELSE s

\* re.sub(r'\s+\d+\s+', ' ', s) (line 156) from index i on: whitespace, a
\* run of digits and whitespace become one space; the search goes on behind
\* the match, so the whitespace a match has taken cannot start the next one.
RECURSIVE RemoveMiddleNumbersFrom(_, _)
RemoveMiddleNumbersFrom(s, i) ==
    IF i > Len(s) THEN <<>>
    ELSE LET a == SpanEnd(Spaces, s, i)
             b == SpanEnd(DigitChars, s, a)
             c == SpanEnd(Spaces, s, b)
         IN IF a > i /\ b > a /\ c > b
                THEN <<" ">> \o RemoveMiddleNumbersFrom(s, c)
                ELSE <<s[i]>> \o RemoveMiddleNumbersFrom(s, i + 1)
RemoveMiddleNumbers(s) == RemoveMiddleNumbersFrom(s, 1)

\* re.sub(r'\s+', ' ', s) (line 159)
RECURSIVE CollapseSpacesFrom(_, _)
CollapseSpacesFrom(s, i) ==
    IF i > Len(s) THEN <<>>
    ELSE IF s[i] \in Spaces
        THEN <<" ">> \o CollapseSpacesFrom(s, SpanEnd(Spaces, s, i))
    ELSE <<s[i]>> \o CollapseSpacesFrom(s, i + 1)
\* str.strip()
Trim(s) ==
    LET nonspaces == {j \in 1..Len(s) : s[j] \notin Spaces}
    IN IF nonspaces = {} THEN <<>>
       ELSE SubSeq(s, SetMin(nonspaces),
                   CHOOSE j \in nonspaces : \A x \in nonspaces : x <= j)

\* _clean_block_states (lines 133-165): the bracketed block states go, the
\* named ones first, then the numbers, then the whitespace is normalised.
\* (None of these steps raises on a string.)
CleanBlockStates(command) ==
    Trim(CollapseSpacesFrom(
        RemoveMiddleNumbers(RemoveTrailingNumber(
            StripGroups(
                StripGroups(StripGroups(StripGroups(command,
                    <<"f", "a", "c", "i", "n", "g", "=">>, 1),
                    <<"t", "y", "p", "e", "=">>, 1),
                    <<"w", "a", "t", "e", "r", "l", "o", "g", "g", "e", "d", "=">>, 1),
                <<>>, 0))), 1))

\* str.split(): the maximal runs of characters that are not whitespace
RECURSIVE SplitFrom(_, _)
SplitFrom(s, i) ==
    LET start == SpanEnd(Spaces, s, i)
        stop == FirstIndex(Spaces, s, start)
    IN IF start > Len(s) THEN <<>>
       ELSE IF stop = 0 THEN <<SubSeq(s, start, Len(s))>>
       ELSE <<SubSeq(s, start, stop - 1)>> \o SplitFrom(s, stop)
Split(s) == SplitFrom(s, 1)
\* " ".join(parts)
RECURSIVE Join(_)
Join(parts) ==
    IF parts = <<>> THEN <<>>
    ELSE IF Len(parts) = 1 THEN parts[1]
    ELSE parts[1] \o <<" ">> \o Join(Tail(parts))

\* str.isdigit(), of the characters used here
IsDigits(s) == s # <<>> /\ \A i \in DOMAIN s : s[i] \in DigitChars
RECURSIVE NatOf(_)
NatOf(s) == IF s = <<>> THEN 0
            ELSE 10 * NatOf(SubSeq(s, 1, Len(s) - 1)) + DigitValue(s[Len(s)])
\* int(s): a sign, if any, and digits; anything else raises (ok is false)
IntOf(s) ==
    LET signed == s # <<>> /\ s[1] \in {"+", "-"}
        body == IF signed THEN Tail(s) ELSE s
    IN IF ~IsDigits(body) THEN [ok |-> FALSE, value |-> 0]
       ELSE [ok |-> TRUE,
             value |-> IF signed /\ s[1] = "-" THEN 0 - NatOf(body) ELSE NatOf(body)]
\* str(n)
RECURSIVE StrNat(_)
StrNat(n) == IF n < 10 THEN <<Digits[n + 1]>>
             ELSE StrNat(n \div 10) \o <<Digits[(n % 10) + 1]>>
Str(n) == IF n < 0 THEN <<"-">> \o StrNat(0 - n) ELSE StrNat(n)

\* (a variant that takes a bare negative integer for an offset too)
RECURSIVE ConvertPartsShiftsNegatives(_, _, _, _)
ConvertPartsShiftsNegatives(parts, center_pos, i, coord_count) ==
    IF i > Len(parts) THEN [ok |-> TRUE, parts |-> <<>>]
    ELSE LET part == parts[i]
             relative == part[1] = "~" \/ (part[1] = "-" /\ IsDigits(Tail(part)))
             offset_str == IF part[1] = "~" THEN Tail(part) ELSE part
             offset == IF offset_str = <<>> THEN [ok |-> TRUE, value |-> 0]
                       ELSE IF offset_str[1] = "+" THEN IntOf(Tail(offset_str))
                       ELSE IntOf(offset_str)
             counted == relative \/ IsDigits(part)
             rest == ConvertPartsShiftsNegatives(parts, center_pos, i + 1,
                         IF counted THEN coord_count + 1 ELSE coord_count)
         IN IF relative /\ ~offset.ok THEN [ok |-> FALSE, parts |-> <<>>]
            ELSE [ok |-> rest.ok,
                  parts |-> <<IF relative
                                  THEN Str(center_pos[(coord_count % 3) + 1] + offset.value)
                                  ELSE part>> \o rest.parts]

\* (a variant that takes the axis from the place of the token in the
\* command instead of from the count of coordinates)
RECURSIVE ConvertPartsByPlace(_, _, _, _)
ConvertPartsByPlace(parts, center_pos, i, coord_count) ==
    IF i > Len(parts) THEN [ok |-> TRUE, parts |-> <<>>]
    ELSE LET part == parts[i]
             offset_str == Tail(part)
             offset == IF offset_str = <<>> THEN [ok |-> TRUE, value |-> 0]
                       ELSE IF offset_str[1] = "+" THEN IntOf(Tail(offset_str))
                       ELSE IntOf(offset_str)
             rest == ConvertPartsByPlace(parts, center_pos, i + 1, coord_count + 1)
         IN IF part[1] = "~" /\ ~offset.ok THEN [ok |-> FALSE, parts |-> <<>>]
            ELSE [ok |-> rest.ok,
                  parts |-> <<IF part[1] = "~"
                                  THEN Str(center_pos[(coord_count % 3) + 1] + offset.value)
                                  ELSE part>> \o rest.parts]

\* The loop of lines 185-220 from part i on, with coord_count coordinates
\* counted so far: ok is false when an int() raised, else parts are the
\* parts after the loop.
RECURSIVE ConvertParts(_, _, _, _)
ConvertParts(parts, center_pos, i, coord_count) ==
    IF i > Len(parts) THEN [ok |-> TRUE, parts |-> <<>>]
    ELSE LET part == parts[i]
             offset_str == Tail(part)
             offset == IF offset_str = <<>> THEN [ok |-> TRUE, value |-> 0]
                       ELSE IF offset_str[1] = "+" THEN IntOf(Tail(offset_str))
                       ELSE IntOf(offset_str)
             counted == \/ part[1] = "~"
                        \/ IsDigits(part)
                        \/ part[1] = "-" /\ IsDigits(Tail(part))
             rest == ConvertParts(parts, center_pos, i + 1,
                                  IF counted THEN coord_count + 1 ELSE coord_count)
         IN IF part[1] = "~" /\ ~offset.ok THEN [ok |-> FALSE, parts |-> <<>>]
            ELSE [ok |-> rest.ok,
                  parts |-> <<IF part[1] = "~"
                                  THEN Str(center_pos[(coord_count % 3) + 1] + offset.value)
                                  ELSE part>> \o rest.parts]

\* _convert_relative_coords (lines 167-230): the command with every ~ token
\* replaced, or, when anything raised, the command as it was given.
ConvertRelativeCoords(command, center_pos) ==
    LET r == ConvertParts(Split(command), center_pos, 1, 0)
    IN IF r.ok THEN Join(r.parts) ELSE command

\* The tokens the commands of a plan are made of here: a verb, a block, the
\* three forms of a relative coordinate, absolute coordinates (which are
\* also what a data value looks like), a relative coordinate whose offset is
\* no number, and blocks with a state.
TokSetblock == <<"s", "e", "t", "b", "l", "o", "c", "k">>
TokStone == <<"s", "t", "o", "n", "e">>
TokHere == <<"~">>
TokMinus4 == <<"~", "-", "4">>
TokPlus10 == <<"~", "+", "1", "0">>
TokTen == <<"1", "0">>
TokMinus5 == <<"-", "5">>
TokMalformed == <<"~", "x">>
TokDoorFacing == <<"d", "o", "o", "r", "[", "f", "a", "c", "i", "n", "g", "=", "e", "a", "s", "t", "]">>
TokSlabHalf == <<"s", "l", "a", "b", "[", "h", "a", "l", "f", "=", "t", "o", "p", "]">>
Tokens == {TokSetblock, TokStone, TokHere, TokMinus4,
           TokPlus10, TokTen, TokMinus5, TokMalformed,
           TokDoorFacing, TokSlabHalf}
\* Commands as a planner writes them
CmdHere ==
    <<"~", " ", "~", " ", "~">>
CmdOffsets ==
    <<"~", "-", "4", " ", "~", " ", "~", "+", "1", "0">>
CmdFill ==
    <<"f", "i", "l", "l", " ", "~", "-", "5", " ", "~", " ", "~", "-", "5", " ", "~", "+", "5", " ", "~", "+", "1", "0", " ", "~", "+", "5", " ", "s", "t", "o", "n", "e">>
CmdSetblockAbsolute ==
    <<"s", "e", "t", "b", "l", "o", "c", "k", " ", "1", "0", " ", "6", "4", " ", "1", "0", " ", "s", "t", "o", "n", "e">>
CmdFillMixed ==
    <<"f", "i", "l", "l", " ", "1", "0", " ", "6", "4", " ", "1", "0", " ", "~", "5", " ", "~", " ", "~", "5", " ", "s", "t", "o", "n", "e">>
CmdDoor ==
    <<"s", "e", "t", "b", "l", "o", "c", "k", " ", "~", " ", "~", " ", "~", " ", "o", "a", "k", "_", "d", "o", "o", "r", "[", "f", "a", "c", "i", "n", "g", "=", "e", "a", "s", "t", "]", " ", "0">>
CmdMalformedSecond ==
    <<"s", "e", "t", "b", "l", "o", "c", "k", " ", "~", "1", " ", "~", "x", " ", "~", " ", "s", "t", "o", "n", "e">>
CmdSpaced ==
    <<" ", " ", "s", "e", "t", "b", "l", "o", "c", "k", " ", " ", "~", " ", " ", "~", " ", "~", " ", " ", " ", "s", "l", "a", "b", "[", "h", "a", "l", "f", "=", "t", "o", "p", ",", "t", "y", "p", "e", "=", "t", "o", "p", "]", " ", " ", "3", " ">>
Examples == {CmdHere, CmdOffsets, CmdFill,
             CmdSetblockAbsolute, CmdFillMixed, CmdDoor,
             CmdMalformedSecond, CmdSpaced}

\* The commands of at most MaxTokens tokens, single-spaced, and the examples
TokenLists == UNION {[1..n -> Tokens] : n \in 1..MaxTokens}
Commands == {Join(ts) : ts \in TokenLists} \cup Examples
\* The plans: one command, or two of the examples
Plans == {<<c>> : c \in Commands} \cup {<<a, b>> : a \in Examples, b \in Examples}
Origins == {Origin, <<-3, 70, 12>>}

\* The worker thread of the engine with the plan as text, after lines 41-58:
\* i is the index of the for loop, cleaned_command and absolute_command the
\* two locals of its body.
NoText == <<>>
InitText ==
    \E plan \in Plans, center_pos \in Origins, p \in Players :
        /\ is_running = TRUE
        /\ current_progress = 0
        /\ total_commands = Len(plan)
        /\ threads = <<[pc |-> "loop", commands |-> plan, player_name |-> p,
                        center_pos |-> center_pos, i |-> 0,
                        cleaned_command |-> NoText, absolute_command |-> NoText]>>
        /\ scheduler = <<>>
        /\ sink = <<>>
        /\ economy_plugin = TRUE
        /\ money = [q \in Players |-> InitialMoney]
        /\ building_records = EmptyDict
        /\ building_coordinates = EmptyDict
        /\ next_building_id = FirstBuildingId
        /\ request_positions = EmptyDict
        /\ next_request_id = FirstRequestId
        /\ player_requests = EmptyDict
        /\ generating = {}
        /\ panels = {}
        /\ load = 0
        /\ tally = EmptyDict
        /\ lastAttempt = NoAttempt

\* Lines 60-67: the next command of the plan is cleaned.
CleanCommand(t) ==
    /\ threads[t].pc = "loop"
    /\ threads[t].i < Len(threads[t].commands)
    /\ is_running
    /\ threads' = [threads EXCEPT
            ![t].pc = "cleaned",
            ![t].cleaned_command = CleanBlockStates(threads[t].commands[threads[t].i + 1])]
    /\ UNCHANGED <<is_running, current_progress, total_commands, scheduler, sink>>
    /\ UNCHANGED pluginVars
    /\ NoConfirmation

\* Lines 69-71: the relative coordinates of the cleaned command are resolved.
ConvertCommand(t) ==
    /\ threads[t].pc = "cleaned"
    /\ threads' = [threads EXCEPT
            ![t].pc = "converted",
            ![t].absolute_command =
                ConvertRelativeCoords(threads[t].cleaned_command, threads[t].center_pos)]
    /\ UNCHANGED <<is_running, current_progress, total_commands, scheduler, sink>>
    /\ UNCHANGED pluginVars
    /\ NoConfirmation

\* (a variant that does not dispatch a command in which a ~ is left)
DispatchCommandSkipsUnresolved(t) ==
    /\ threads[t].pc = "converted"
    /\ IF \E j \in DOMAIN threads[t].absolute_command : threads[t].absolute_command[j] = "~"
          THEN UNCHANGED <<sink, current_progress, scheduler>>
          ELSE /\ sink' = Append(sink, <<t, threads[t].i + 1, WorkerContext,
                                         threads[t].absolute_command>>)
               /\ current_progress' = threads[t].i + 1
               /\ scheduler' = Append(scheduler,
                       [type |-> "progress", player_name |-> threads[t].player_name,
                        thread |-> t])
    /\ threads' = [threads EXCEPT ![t].pc = "loop", ![t].i = @ + 1]
    /\ UNCHANGED <<is_running, total_commands>>
    /\ UNCHANGED pluginVars
    /\ NoConfirmation

\* Lines 73-86: the command is dispatched, whatever it looks like, the
\* progress counter set and the progress callback posted; the loop goes on
\* with the next command.
DispatchCommand(t) ==
    /\ threads[t].pc = "converted"
    /\ sink' = Append(sink, <<t, threads[t].i + 1, WorkerContext,
                               threads[t].absolute_command>>)
    /\ current_progress' = threads[t].i + 1
    /\ scheduler' = Append(scheduler,
            [type |-> "progress", player_name |-> threads[t].player_name, thread |-> t])
    /\ threads' = [threads EXCEPT ![t].pc = "loop", ![t].i = @ + 1]
    /\ UNCHANGED <<is_running, total_commands>>
    /\ UNCHANGED pluginVars
    /\ NoConfirmation

NextText ==
    \/ \E t \in ThreadIds : CleanCommand(t)
    \/ \E t \in ThreadIds : ConvertCommand(t)
    \/ \E t \in ThreadIds : DispatchCommand(t)

SpecText == InitText /\ [][NextText]_vars

\* The engine alone, driven through its own interface.
NextEngine ==
    \/ \E c \in CmdLens, p \in Players, pos \in {Origin, NoPos} : Execute(c, p, pos)
    \/ StopExecution
    \/ \E api \in Apis : RunTask(api)
    \/ ThreadStep

SpecEngine == Init /\ [][NextEngine]_vars

\* Two execute_commands_async calls made one after the other by the main
\* thread on an idle engine, before the worker of the first has run its
\* first statement: both find is_running false (line 31) and both start a
\* worker.
ExecuteTwice(first, second, player_name, center_pos) ==
    /\ threads = <<>>
    /\ threads' = ExecuteCommandsAsync(
                      ExecuteCommandsAsync(threads, first, player_name, center_pos, 0),
                      second, player_name, center_pos, 0)
    /\ UNCHANGED <<is_running, current_progress, total_commands, scheduler, sink>>
    /\ UNCHANGED pluginVars
    /\ NoConfirmation

\* The engine with two runs started back to back, every dispatch returning.
NextPair ==
    \/ \E first \in CmdLens, second \in CmdLens, p \in Players :
            ExecuteTwice(first, second, p, Origin)
    \/ \E api \in Apis : RunTask(api)
    \/ \E t \in 1..2 : ThreadRuns(t)

SpecPair == Init /\ [][NextPair]_vars

\* The engine with two runs started back to back when every worker thread
\* keeps running until it returns: every dispatch call returns, the posting
\* of the completion callback may raise, and the client may cancel at any
\* time.
ThreadGoesOn(t) ==
    /\ t \in ThreadIds
    /\ \/ ThreadStart(t)
       \/ LoopHead(t)
       \/ DispatchReturn(t, TRUE)
       \/ PostComplete(t)
       \/ PostCompleteRaises(t)
       \/ ThreadFinally(t)

NextPairLive ==
    \/ \E first \in CmdLens, second \in CmdLens, p \in Players, pos \in {Origin, NoPos} :
            ExecuteTwice(first, second, p, pos)
    \/ StopExecution
    \/ \E t \in 1..2 : ThreadGoesOn(t)

SpecPairLive ==
    /\ Init
    /\ [][NextPairLive]_vars
    /\ \A t \in 1..2 : WF_vars(ThreadGoesOn(t))

(***************************************************************************)
(* Properties.                                                             *)
(***************************************************************************)
\* the worker threads that are between their first statement and their
\* finally clause
Running == {t \in ThreadIds : InRun(t)}
\* the progress tasks of thread t that wait in the scheduler
ProgressTasks(t) ==
    {i \in DOMAIN scheduler : scheduler[i].type = "progress" /\ scheduler[i].thread = t}
\* the entries of the sink that thread t dispatched
SinkEntries(t) == {i \in DOMAIN sink : sink[i][1] = t}
\* a confirmation handler has just returned
Attempted == lastAttempt.kind \notin {"none", "submit", "notice", "status", "list"}
\* a task of the main thread has just told a player that planning failed
Noticed == lastAttempt.kind = "notice"
\* the submit handler of the build form has just returned
Submitted == lastAttempt.kind = "submit"

\* C1.  Single-flight: in every reachable state of the engine at most one
\* worker thread is running a command list.
C1_SingleFlight == Cardinality(Running) <= 1

\* C2.  After any confirmation attempt, a successful debit is matched by a
\* record created for that attempt or by a credit of the cost.
C2_DebitMatched ==
    (Attempted /\ lastAttempt.debited) =>
        (lastAttempt.record # 0 \/ lastAttempt.credited)

C4_RefundWhenNotStarted ==
    (Attempted /\ lastAttempt.debited /\ lastAttempt.record # 0 /\ ~lastAttempt.started) =>
        lastAttempt.credited

\* C5.  A confirmation of a request id that is not tracked leaves the
\* player's balance unchanged, creates no record and starts no worker thread.
C5_ExpiredBeforeLedger ==
    (Attempted /\ lastAttempt.kind = "confirm" /\ ~lastAttempt.tracked) =>
        /\ ~lastAttempt.debited
        /\ money[lastAttempt.player_name] = lastAttempt.money_before
        /\ lastAttempt.record = 0
        /\ ~lastAttempt.started

\* C6.  A confirmation of a generated plan that finds the balance below the
\* cost, or whose debit fails, creates no record, takes no record id, starts
\* no worker thread and leaves the balance unchanged.
C6_RecordOnlyAfterDebit ==
    (/\ Attempted
     /\ lastAttempt.kind = "confirm"
     /\ \/ lastAttempt.money_before < lastAttempt.estimated_cost
        \/ ~lastAttempt.debited) =>
        /\ ~lastAttempt.debited
        /\ lastAttempt.record = 0
        /\ DOMAIN building_records = lastAttempt.ids_before
        /\ next_building_id = lastAttempt.next_id_before
        /\ ~lastAttempt.started
        /\ money[lastAttempt.player_name] = lastAttempt.money_before

\* C6, witness: the balance covered a positive cost and the debit call
\* failed.
C6_Witness ==
    /\ Attempted
    /\ lastAttempt.kind = "confirm"
    /\ lastAttempt.estimated_cost > 0
    /\ lastAttempt.money_before >= lastAttempt.estimated_cost
    /\ lastAttempt.msgs = <<MsgDebitFailed>>

\* C7.  A run whose loop was left by the break of the is_running poll posts
\* no completion callback.
C7_NoCompletionAfterCancel ==
    \A t \in ThreadIds : threads[t].broke => threads[t].completePosted = 0

\* C8.  Once stop_execution has been called while a run was live, that run
\* begins no further dispatch.
C8_NoDispatchAfterCancel ==
    [][\A t \in ThreadIds :
           threads[t].cancelSeen =>
               ~(threads[t].pc = "loop" /\ threads'[t].pc = "dispatching")]_vars

C10_AbsentOriginNeverRunning ==
    (\A t \in ThreadIds : threads[t].center_pos = NoPos) => ~is_running

\* the loop of thread t is over
LoopLeft(t) == threads[t].pc \in {"complete", "finally", "done"}

\* C11. Per-command isolation.  A dispatch that raises for command k does not
\* end the batch: in every run with an origin whose loop was not left by the
\* cancellation poll (the break of line 62), once the loop is over a dispatch
\* was attempted for every command of the list, whatever each attempt's
\* outcome, so the number of attempts is the length of the list.
C11_PerCommandIsolation ==
    \A t \in ThreadIds :
        (LoopLeft(t) /\ threads[t].center_pos # NoPos /\ ~threads[t].broke)
            => /\ Attempts(t) = threads[t].commands
               /\ Len(threads[t].results) = threads[t].commands

\* a finished run of two commands whose first dispatch raised and whose
\* second was still dispatched
C11_Witness ==
    \E t \in ThreadIds :
        /\ threads[t].pc = "done"
        /\ ~threads[t].broke
        /\ threads[t].results = <<FALSE, TRUE>>
        /\ SinkEntries(t) # {}

\* the completion callback thread t posts (lines 97-105)
CompleteTask(t) ==
    [type |-> "complete", player_name |-> threads[t].player_name, thread |-> t]

ProgressEvent(task) == <<task.player_name, current_progress, total_commands>>
\* progress callbacks thread t has posted / that the main thread has run
ProgressPosted(t) == Cardinality({k \in DOMAIN threads[t].results : threads[t].results[k]})
ProgressDelivered(t) == ProgressPosted(t) - Cardinality(ProgressTasks(t))

\* C13. Progress reporting.  The step that ends the dispatch of a command,
\* whatever the outcome, sets the progress counter to the number of commands
\* passed and posts one progress callback; and the k-th progress callback of
\* a run that the main thread runs reports (requester, k, N), N the length
\* of the run's command list.
C13_ProgressReporting ==
    [][/\ \A t \in ThreadIds :
            (threads[t].pc = "dispatching" /\ threads'[t].pc # "dispatching") =>
                /\ current_progress' = Len(threads'[t].results)
                /\ Len(scheduler') = Len(scheduler) + 1
                /\ scheduler'[Len(scheduler')].type = "progress"
       /\ (scheduler # <<>> /\ scheduler' = Tail(scheduler)
              /\ Head(scheduler).type = "progress") =>
                LET task == Head(scheduler)
                    t == task.thread
                IN ProgressEvent(task) =
                       <<threads[t].player_name, ProgressDelivered(t) + 1,
                         threads[t].commands>>]_vars

\* C14. Every command applied to the world was dispatched from the main
\* context; none was dispatched by a worker thread itself.
C14_DispatchOnMainContext ==
    \A i \in DOMAIN sink : sink[i][3] = MainContext

\* The stores of the plugin: the ledger, the records and their coordinates,
\* the tracked requests and the request cache, with their id counters.
stores == <<money, building_records, building_coordinates, next_building_id,
            request_positions, next_request_id, player_requests>>
\* A step of a thread the plugin started: an execution worker moves on in
\* _execute_commands_thread, or a planner thread returns.
WorkerStep ==
    \/ \E t \in ThreadIds : threads'[t].pc # threads[t].pc
    \/ generating' # generating /\ generating' \subseteq generating

\* C15. The stores are mutated and the callbacks are run on the main context
\* only.  A step of a planner thread or of an execution worker leaves the
\* ledger, the records, the tracked requests and the request cache as they
\* are and at most posts one task to the scheduler; and the step that runs a
\* posted task (update_ui, show_error, the progress and the completion
\* callback) is never a step of a worker.
C15_StoresOnMainContext ==
    [][/\ WorkerStep =>
            /\ UNCHANGED stores
            /\ \/ scheduler' = scheduler
               \/ /\ Len(scheduler') = Len(scheduler) + 1
                  /\ SubSeq(scheduler', 1, Len(scheduler)) = scheduler
       /\ (scheduler # <<>> /\ scheduler' = Tail(scheduler)) => ~WorkerStep]_vars

\* A planner thread's plan has been put into the request cache and an
\* execution worker's completion has set a record to completed, both by
\* tasks the main thread ran.
C15_Witness ==
    /\ player_requests # EmptyDict
    /\ \E b \in DOMAIN building_records : building_records[b].status = "completed"
    /\ \E t \in ThreadIds : threads[t].completePosted = 1 /\ Len(threads[t].results) > 0

\* C16. Completion marks the record of the execution.  When the main thread
\* runs the completion callback of the worker thread that was started for
\* record R, R is completed afterwards and no other record's status changes.
C16_CompletionMarksItsRecord ==
    [][(scheduler # <<>> /\ scheduler' = Tail(scheduler)
          /\ Head(scheduler).type = "complete") =>
            LET R == threads[Head(scheduler).thread].building_id
            IN /\ R \in DOMAIN building_records =>
                      building_records'[R].status = "completed"
               /\ \A b \in DOMAIN building_records \ {R} :
                      building_records'[b].status = building_records[b].status]_vars

\* C17. Lifecycle liveness.  When every dispatch returns, nobody cancels and
\* the main thread runs every posted task, every record that is in status
\* building is later completed or failed.
C17_BuildingEventuallyEnds ==
    \A b \in 1..MaxLoad :
        (b \in DOMAIN building_records /\ building_records[b].status = "building")
            ~> (b \in DOMAIN building_records
                  /\ building_records[b].status \in TerminalStatuses)

\* C18. Consume-once confirmation.  Over all the confirmations of one
\* request id, at most one record is created and at most one worker thread
\* is started; and once a confirmation of the id has created its record the
\* id is not tracked any more.
C18_ConsumeOnce ==
    \A k \in DOMAIN tally :
        k[1] = "confirm" =>
            /\ tally[k].records <= 1
            /\ tally[k].executions <= 1
            /\ tally[k].records >= 1 => k[2] \notin DOMAIN request_positions

\* a request id confirmed a second time after its first confirmation created
\* a record and started a worker: the second confirmation found the id
\* untracked and created and started nothing
C18_Witness ==
    /\ Attempted
    /\ lastAttempt.kind = "confirm"
    /\ ~lastAttempt.tracked
    /\ lastAttempt.debited
    /\ lastAttempt.record = 0
    /\ ~lastAttempt.started
    /\ \E k \in DOMAIN tally :
          /\ k[1] = "confirm"
          /\ tally[k] = [debits |-> 2, records |-> 1, executions |-> 1]

\* C19. Record ids are never reused.  The id counter never goes down; a
\* step that puts a record under a new id, by either record-creating path,
\* takes the counter's value for it and moves the counter past it; and every
\* stored record sits under its own id, below the counter.  So every id is
\* greater than all ids given before it, also after a record was deleted by
\* a re-confirmation or the store was cleared.
C19_IdsNeverReused ==
    [][/\ next_building_id' >= next_building_id
       /\ \A b \in DOMAIN building_records' \ DOMAIN building_records :
              b = next_building_id /\ next_building_id' = b + 1
       /\ \A b \in DOMAIN building_records' :
              b < next_building_id' /\ building_records'[b].id = b]_vars

\* the confirmation of the generated plan made record 1; the store was
\* cleared by a reload; then the cached request was confirmed and its record
\* was saved under the next id
C19_Witness ==
    /\ Attempted
    /\ lastAttempt.kind = "cached"
    /\ lastAttempt.record = FirstBuildingId + 1
    /\ DOMAIN building_records = {FirstBuildingId + 1}
    /\ <<"confirm", FirstRequestId>> \in DOMAIN tally
    /\ tally[<<"confirm", FirstRequestId>>].records = 1

SubmitStarted ==
    LET request_id == lastAttempt.next_request_id_before
    IN /\ next_request_id = request_id + 1
       /\ DOMAIN request_positions = lastAttempt.request_ids_before \cup {request_id}
       /\ request_id \notin lastAttempt.request_ids_before
       /\ request_positions[request_id].size = lastAttempt.size_str.value
       /\ request_positions[request_id].requirements = lastAttempt.requirements
       /\ lastAttempt.error = NoError
       /\ \E g \in generating \ lastAttempt.generating_before :
              g.request_id = request_id
\* the submit handler that has just returned answered with an error form and
\* took no request id, tracked nothing and started no planner thread
SubmitRejected ==
    /\ lastAttempt.error # NoError
    /\ next_request_id = lastAttempt.next_request_id_before
    /\ DOMAIN request_positions = lastAttempt.request_ids_before
    /\ generating = lastAttempt.generating_before
\* the size submitted is a number within the configured bounds
ExtentInBounds ==
    /\ lastAttempt.size_str.numeric
    /\ MinBuildingSize <= lastAttempt.size_str.value
    /\ lastAttempt.size_str.value <= MaxBuildingSize

\* C21 as stated.  A build request starts generation if and only if its
\* extent is within the bounds; otherwise it is rejected and nothing is
\* allocated.
C21_ExtentBoundsOnly ==
    Submitted => /\ ExtentInBounds => SubmitStarted
                 /\ ~ExtentInBounds => SubmitRejected

\* C21, amended.  A build request starts generation if and only if its
\* extent is within the bounds and its requirements are not blank; any other
\* request is rejected with an error form, and no request id is taken, no
\* request is tracked and no planner thread is started.  The bounds
\* themselves are accepted, their outer neighbours are not.
C21_ExtentBounds ==
    Submitted =>
        /\ (ExtentInBounds /\ Strip(lastAttempt.requirements) # "") => SubmitStarted
        /\ ~ExtentInBounds => SubmitRejected /\ lastAttempt.error = ErrInvalidSize
        /\ Strip(lastAttempt.requirements) = "" => SubmitRejected

\* a request of the least size was accepted after one of the size below it
\* was rejected
C21_Witness ==
    /\ Submitted
    /\ SubmitStarted
    /\ lastAttempt.size_str = [numeric |-> TRUE, value |-> MaxBuildingSize]
    /\ lastAttempt.next_request_id_before > FirstRequestId
    /\ \E r \in DOMAIN request_positions :
          request_positions[r].size = MinBuildingSize

\* the step is the failure of the planner thread of request g: the thread
\* leaves and posts update_ui with success false, or show_error
PlannerFails(g) ==
    /\ g \in generating
    /\ generating' = generating \ {g}
    /\ Len(scheduler') = Len(scheduler) + 1
    /\ scheduler'[Len(scheduler')].type \in {"update_ui_failed", "show_error"}
\* the step is the main thread running the failure task of a request
FailureTaskRuns ==
    /\ scheduler # <<>>
    /\ Head(scheduler).type \in {"update_ui_failed", "show_error"}
    /\ scheduler' = Tail(scheduler)
\* the step touches neither the ledger nor the records nor the engine, and
\* the request stays tracked and gets no confirm panel
RequestAbandoned(request_id) ==
    /\ request_id \in DOMAIN request_positions'
    /\ money' = money
    /\ building_records' = building_records
    /\ building_coordinates' = building_coordinates
    /\ next_building_id' = next_building_id
    /\ threads' = threads
    /\ is_running' = is_running
    /\ sink' = sink
    /\ tally' = tally
    /\ panels' = panels
    /\ \A p \in panels' : p.request_id # request_id

\* a failed planner call leaves the request tracked and touches neither the
\* ledger nor the records nor the engine, and its failure task sends the
\* requester a message
FailureHasNoSideEffects ==
    /\ \A g \in generating : PlannerFails(g) => RequestAbandoned(g.request_id)
    /\ FailureTaskRuns =>
          /\ RequestAbandoned(Head(scheduler).gen.request_id)
          /\ lastAttempt'.kind = "notice"
          /\ lastAttempt'.player_name = Head(scheduler).player_name

\* C22.  When the planner call fails, by an error result or by an
\* exception, the requester is sent the error, the request stays in the
\* tracker, and the failure touches neither the ledger nor the records nor
\* the engine.
C22_PlannerFailure ==
    [][/\ FailureHasNoSideEffects
       /\ FailureTaskRuns =>
             lastAttempt'.message \in {MsgGenerationFailed, MsgGenerationError}]_vars

\* C23.  Without an economy plugin every confirmation is refused, whatever
\* the cost and whether it is of a generated plan, of the cached request or
\* of a stored record: the handler makes no record, deletes no tracker entry
\* (and no cached request), debits nothing and starts no execution.
C23_NoLedgerNoBuild ==
    [][(~economy_plugin /\ lastAttempt'.kind \in {"confirm", "cached", "reconfirm"}) =>
          /\ lastAttempt'.msgs \in {<<MsgInsufficientFunds>>, <<MsgDebitFailed>>,
                                    <<MsgRequestExpired>>}
          /\ ~lastAttempt'.debited /\ ~lastAttempt'.started /\ lastAttempt'.record = 0
          /\ building_records' = building_records
          /\ building_coordinates' = building_coordinates
          /\ next_building_id' = next_building_id
          /\ request_positions' = request_positions
          /\ player_requests' = player_requests
          /\ money' = money
          /\ threads' = threads
          /\ is_running' = is_running]_vars

\* without an economy plugin, the confirm button of a plan of cost 0 whose
\* request is tracked was pressed and refused
C23_Witness ==
    /\ ~economy_plugin
    /\ lastAttempt.kind = "confirm"
    /\ lastAttempt.tracked
    /\ lastAttempt.estimated_cost = 0
    /\ lastAttempt.msgs = <<MsgDebitFailed>>
    /\ request_positions # EmptyDict
    /\ \E k \in DOMAIN tally : k[1] = "reconfirm"

\* the step is a call of _update_building_status
StatusSet == lastAttempt'.kind = "status"

\* C24.  _update_building_status on an unknown record id changes nothing in
\* the record store or the coordinate cache; with completed or failed on a
\* known id it sets the status, stamps the completion time and removes the
\* cache entry of that id only; with building on a known id it changes only
\* the status field of that record.
C24_SetStatusContract ==
    [][StatusSet =>
        LET b == lastAttempt'.building_id
            status == lastAttempt'.status
        IN /\ b \notin DOMAIN building_records =>
                 /\ building_records' = building_records
                 /\ building_coordinates' = building_coordinates
           /\ (b \in DOMAIN building_records /\ status \in {"completed", "failed"}) =>
                 /\ DOMAIN building_records' = DOMAIN building_records
                 /\ building_records'[b] = [building_records[b] EXCEPT
                                               !.status = status, !.completed_time = "set"]
                 /\ \A x \in DOMAIN building_records \ {b} :
                        building_records'[x] = building_records[x]
                 /\ DOMAIN building_coordinates' = DOMAIN building_coordinates \ {b}
                 /\ \A x \in DOMAIN building_coordinates' :
                        building_coordinates'[x] = building_coordinates[x]
           /\ (b \in DOMAIN building_records /\ status = "building") =>
                 /\ building_records' = [building_records EXCEPT ![b].status = "building"]
                 /\ building_coordinates' = building_coordinates]_vars

\* a record was set to building while its coordinates were cached, next to
\* a completed record whose cache entry is gone
C24_Witness ==
    /\ lastAttempt.kind = "status"
    /\ lastAttempt.status = "building"
    /\ lastAttempt.building_id \in DOMAIN building_coordinates
    /\ \E x \in DOMAIN building_records :
          /\ building_records[x].status = "completed"
          /\ building_records[x].completed_time = "set"
          /\ x \notin DOMAIN building_coordinates

\* the player has just been shown the list of pending designs
Listed == lastAttempt.kind = "list"
\* the ids of the pending records of the player
PendingIds(player_name) ==
    {b \in DOMAIN building_records :
        /\ building_records[b].player_name = player_name
        /\ building_records[b].status = "pending"}

Cleaned == threads # <<>> /\ threads[1].pc = "cleaned"
Converted == threads # <<>> /\ threads[1].pc = "converted"
\* The forms of a token
IsTilde(tok) == tok[1] = "~"
IsBareInteger(tok) == IsDigits(tok) \/ (tok[1] \in {"+", "-"} /\ IsDigits(Tail(tok)))
IsCoordinate(tok) == IsTilde(tok) \/ IsBareInteger(tok)
\* ~, ~N, ~+N and ~-N
WellFormedTilde(tok) ==
    \/ tok = <<"~">>
    \/ IsDigits(Tail(tok))
    \/ Len(tok) >= 3 /\ tok[2] \in {"+", "-"} /\ IsDigits(SubSeq(tok, 3, Len(tok)))
OffsetOf(tok) ==
    IF tok = <<"~">> THEN 0
    ELSE IF tok[2] = "-" THEN 0 - NatOf(SubSeq(tok, 3, Len(tok)))
    ELSE IF tok[2] = "+" THEN NatOf(SubSeq(tok, 3, Len(tok)))
    ELSE NatOf(Tail(tok))
\* the coordinate tokens before token j
CountBefore(toks, j) == Cardinality({k \in 1..(j - 1) : IsCoordinate(toks[k])})
\* the tokens with every ~ token replaced by the axis of its count plus its
\* offset
Resolved(toks, center_pos) ==
    [j \in DOMAIN toks |->
        IF IsTilde(toks[j])
            THEN Str(center_pos[(CountBefore(toks, j) % 3) + 1] + OffsetOf(toks[j]))
            ELSE toks[j]]
OutFill ==
    <<"f", "i", "l", "l", " ", "-", "5", " ", "6", "4", " ", "-", "5", " ", "5", " ", "7", "4", " ", "5", " ", "s", "t", "o", "n", "e">>

CurrentCommand == threads[1].commands[threads[1].i + 1]
\* the command starts with one of the two verbs that place blocks
TokFill == <<"f", "i", "l", "l">>
PlacesBlocks(toks) == toks # <<>> /\ toks[1] \in {TokSetblock, TokFill}
\* the last of the coordinate tokens that follow the verb of a command, 1
\* if the token after the verb is no coordinate
CoordinatesEnd(toks) ==
    LET others == {j \in 2..Len(toks) : ~IsCoordinate(toks[j])}
    IN IF others = {} THEN Len(toks) ELSE SetMin(others) - 1

\* C27.  Cleaning never removes an integer token that is a coordinate: the
\* absolute coordinates that follow the verb of a command, before its block,
\* are all in the cleaned command, in their places, and so the command that
\* is dispatched has every coordinate in its x, y or z slot.
C27_CoordinatesSurviveCleaning ==
    Converted =>
        LET toks == Split(CurrentCommand)
            cleaned == Split(threads[1].cleaned_command)
            absolute == Split(threads[1].absolute_command)
            last == CoordinatesEnd(toks)
        IN (/\ PlacesBlocks(toks)
            /\ last < Len(toks)
            /\ \A j \in DOMAIN toks : IsTilde(toks[j]) => WellFormedTilde(toks[j])) =>
                \A j \in 2..last :
                    /\ j <= Len(cleaned) /\ j <= Len(absolute)
                    /\ cleaned[j] = toks[j]
                    /\ absolute[j] = IF IsTilde(toks[j])
                                         THEN Str(threads[1].center_pos[((j - 2) % 3) + 1]
                                                  + OffsetOf(toks[j]))
                                         ELSE toks[j]

\* the tokens of a command with the bracketed groups taken out of every
\* token, without the tokens of which nothing is left
RECURSIVE WithoutGroups(_)
WithoutGroups(toks) ==
    IF toks = <<>> THEN <<>>
    ELSE LET tok == StripGroups(Head(toks), <<>>, 0)
         IN (IF tok = <<>> THEN <<>> ELSE <<tok>>) \o WithoutGroups(Tail(toks))
\* ... and without the data value at the end, if there is one
WithoutDataValue(toks) ==
    IF toks # <<>> /\ IsDigits(toks[Len(toks)]) THEN SubSeq(toks, 1, Len(toks) - 1)
    ELSE toks

\* C28.  Cleaning takes out every bracketed group, whatever its key, and
\* the data value at the end of a command, makes one space of every run of
\* whitespace, and leaves every other token as it is and where it is; no
\* bracketed group is left in what it returns.
C28_CleaningLeavesTheRest ==
    (Converted /\ PlacesBlocks(Split(CurrentCommand))) =>
        LET cleaned == threads[1].cleaned_command
        IN /\ cleaned = Join(WithoutDataValue(WithoutGroups(Split(CurrentCommand))))
           /\ ~\E a, b \in DOMAIN cleaned : a < b /\ cleaned[a] = "[" /\ cleaned[b] = "]"
           /\ CurrentCommand = CmdDoor =>
                 cleaned = Join(<<TokSetblock, TokHere, TokHere, TokHere,
                                  <<"o", "a", "k", "_", "d", "o", "o", "r">>>>)

\* C29.  Resolution is idempotent: resolving what a resolution returned, at
\* the same origin, returns it again, both when every ~ token was resolved
\* and when the command came back as it was given.
C29_ResolveIdempotent ==
    Converted =>
        ConvertRelativeCoords(threads[1].absolute_command, threads[1].center_pos)
            = threads[1].absolute_command

\* after a command of which every ~ token was resolved, at an origin with no
\* 0 in it, a command with a ~ token came back from resolution as it was
C29_Witness ==
    /\ Converted
    /\ threads[1].i = 1
    /\ threads[1].center_pos # Origin
    /\ sink[1][4] # CleanBlockStates(threads[1].commands[1])
    /\ \A j \in DOMAIN sink[1][4] : sink[1][4][j] # "~"
    /\ threads[1].absolute_command = threads[1].cleaned_command
    /\ \E j \in DOMAIN threads[1].cleaned_command : threads[1].cleaned_command[j] = "~"

\* a ~ token whose offset int() does not take
Malformed(tok) ==
    /\ IsTilde(tok)
    /\ tok # <<"~">>
    /\ ~(IF tok[2] = "+" THEN IntOf(Tail(Tail(tok))) ELSE IntOf(Tail(tok))).ok
HasMalformed(command) == \E j \in DOMAIN Split(command) : Malformed(Split(command)[j])

\* C30.  When a ~ token of a command has a malformed offset, resolution
\* returns the command exactly as it was given, the well-formed ~ tokens
\* before the malformed one included, and the engine dispatches that string
\* and goes on: every command of the plan up to the one the loop is at has
\* been dispatched, in order.
C30_FailSoftResolution ==
    /\ Converted =>
          (HasMalformed(threads[1].cleaned_command) =>
              threads[1].absolute_command = threads[1].cleaned_command)
    /\ (threads # <<>> /\ threads[1].pc \in {"loop", "cleaned", "converted"}) =>
          /\ Len(sink) = threads[1].i
          /\ current_progress = threads[1].i
          /\ \A j \in DOMAIN sink :
                /\ sink[j][2] = j
                /\ HasMalformed(CleanBlockStates(threads[1].commands[j])) =>
                       sink[j][4] = CleanBlockStates(threads[1].commands[j])

\* the command setblock ~1 ~x ~ stone was dispatched as it is, and the
\* command after it has been resolved
C30_Witness ==
    /\ Converted
    /\ threads[1].i = 1
    /\ threads[1].commands[1] = CmdMalformedSecond
    /\ sink[1][4] = CmdMalformedSecond
    /\ threads[1].absolute_command # threads[1].cleaned_command

\* a dispatch of thread t has raised
HadFailure(t) == \E k \in DOMAIN threads[t].results : ~threads[t].results[k]
\* the completion callback of thread t has been run by the main thread
CompletionHandled(t) ==
    /\ threads[t].completePosted > 0
    /\ \A i \in DOMAIN scheduler : scheduler[i] # CompleteTask(t)

\* C31. Per-command failures never fail the record.  The record of a run in
\* which a dispatch raised is never failed; it is in status building until
\* the completion callback of the run has been run, and completed from then
\* on.
C31_FailuresNeverFailRecord ==
    \A t \in ThreadIds :
        LET R == threads[t].building_id
        IN (HadFailure(t) /\ R \in DOMAIN building_records) =>
              /\ building_records[R].status # "failed"
              /\ building_records[R].status =
                     IF CompletionHandled(t) THEN "completed" ELSE "building"

\* C32. Ordered dispatch.  The sink receives the commands of one run in the
\* order of the list, each at most once, and between two commands of one run
\* it receives no command of another run.
C32_OrderedDispatch ==
    \A i \in DOMAIN sink : \A j \in DOMAIN sink :
        (i < j /\ sink[i][1] = sink[j][1]) =>
            /\ sink[i][2] < sink[j][2]
            /\ \A k \in i..j : sink[k][1] = sink[i][1]

\* C33. The engine always returns to idle.  Every run that was started,
\* however it ends (the list is exhausted, the poll finds the flag cleared,
\* there is no origin, an error is raised outside the loop's try), reaches a
\* state in which it has returned and is_running is false, so that the next
\* call of execute_commands_async starts a worker.
C33_ReturnsToIdle ==
    \A t \in 1..2 :
        (t \in ThreadIds) ~>
            (/\ t \in ThreadIds
             /\ threads[t].pc = "done"
             /\ ~is_running
             /\ Len(ExecuteCommandsAsync(threads, 0, "alice", Origin, 0)) = Len(threads) + 1)

\* a run that was cancelled in its loop and a run that went through its
\* whole list have both returned, and the engine is idle
C33_Witness ==
    /\ ~is_running
    /\ \E t \in ThreadIds, u \in ThreadIds :
          /\ threads[t].pc = "done" /\ threads[t].broke /\ threads[t].cancelSeen
          /\ threads[u].pc = "done" /\ ~threads[u].broke
          /\ Len(threads[u].results) = MaxCmds

\* C34. Terminal statuses are absorbing.  No step changes the status of a
\* record that is completed or failed (a later confirmation, a later
\* completion callback, the status update that follows the start of an
\* execution), and after every step the completion time of a record is set
\* if and only if its status is completed or failed.
C34_TerminalAbsorbing ==
    [][/\ \A b \in DOMAIN building_records \cap DOMAIN building_records' :
              building_records[b].status \in TerminalStatuses =>
                  building_records'[b].status = building_records[b].status
       /\ \A b \in DOMAIN building_records' :
              (building_records'[b].completed_time # NoneStr)
                  <=> (building_records'[b].status \in TerminalStatuses)]_vars

\* a record is completed, and the same requester has confirmed again since:
\* the confirmation that has just returned made another record, started a
\* worker for it and set it to building
C34_Witness ==
    /\ Attempted
    /\ lastAttempt.started
    /\ lastAttempt.record # 0
    /\ \E b \in DOMAIN building_records :
          /\ b # lastAttempt.record
          /\ building_records[b].status = "completed"
          /\ building_records[b].completed_time # NoneStr
          /\ building_records[b].player_name = lastAttempt.player_name
          /\ building_records[lastAttempt.record].status = "building"

\* C35. No spurious early exit.  A run with an origin on which
\* stop_execution was not called between its start and its return goes
\* through its whole list: when its loop is over, a dispatch was attempted
\* for every command, whatever other runs have done in the meantime.
C35_NoSpuriousEarlyExit ==
    \A t \in ThreadIds :
        (LoopLeft(t) /\ threads[t].center_pos # NoPos /\ ~threads[t].cancelSeen) =>
            /\ ~threads[t].broke
            /\ Len(threads[t].results) = threads[t].commands

\* The completion callback (lines 98-100) runs on the main thread and, like
\* the progress callback, reads the engine's counters when it runs: the
\* event it hands to on_complete.
CompleteEvent(task) == <<task.player_name, current_progress, total_commands>>

\* C36. Event payloads belong to their run.  Every progress and completion
\* event (requester, done, total) that the main thread delivers has
\* 0 <= done <= total and total the length of the command list of the run
\* that posted it; and the completion event of a run that went through its
\* whole list with no dispatch raising has done = total.
C36_EventPayloads ==
    [][(/\ scheduler # <<>>
        /\ scheduler' = Tail(scheduler)
        /\ Head(scheduler).type \in {"progress", "complete"}) =>
            LET task == Head(scheduler)
                t == task.thread
                event == IF task.type = "progress" THEN ProgressEvent(task)
                                                   ELSE CompleteEvent(task)
            IN /\ 0 <= event[2]
               /\ event[2] <= event[3]
               /\ event[3] = threads[t].commands
               /\ (task.type = "complete" /\ ~threads[t].broke /\ ~HadFailure(t))
                     => event[2] = event[3]]_vars

\* what is stored of a request: origin, dimension, extent, requirements
RequestData(x) ==
    [center_pos |-> x.center_pos, dimension |-> x.dimension, size |-> x.size,
     requirements |-> x.requirements]

\* C37. The record created by confirming request id r holds the origin, the
\* extent and the requirements stored under r when the request was made and
\* the commands and the cost the planner returned for r.  Step by step: what
\* is stored under a tracked id never changes and is what the planner thread
\* of the id was started with; the task the planner thread posts shows one
\* panel, with the id, the commands and the cost of the task; and a step
\* that creates a record is the confirmation of a tracked id r by the panel
\* of r, and the record holds what is stored under r and the commands and
\* the cost of that panel.
C37_RecordOfItsRequest ==
    [][/\ \A r \in DOMAIN request_positions \cap DOMAIN request_positions' :
              request_positions'[r] = request_positions[r]
       /\ \A g \in generating' :
              /\ g.request_id \in DOMAIN request_positions'
              /\ RequestData(request_positions'[g.request_id]) = RequestData(g)
       /\ (scheduler # <<>> /\ scheduler' = Tail(scheduler)
              /\ Head(scheduler).type = "update_ui") =>
                \A p \in panels' \ panels :
                    /\ p.request_id = Head(scheduler).gen.request_id
                    /\ p.commands = Head(scheduler).commands
                    /\ p.estimated_cost = Head(scheduler).estimated_cost
       /\ \A p \in panels', q \in panels' :
              (p.request_id = q.request_id /\ p.request_id # 0) => p = q
       /\ \A b \in DOMAIN building_records' \ DOMAIN building_records :
              \E r \in DOMAIN request_positions \ DOMAIN request_positions' :
                  \E p \in panels :
                      /\ p.request_id = r
                      /\ RequestData(building_records'[b]) =
                             RequestData(request_positions[r])
                      /\ building_records'[b].player_name =
                             request_positions[r].player_name
                      /\ building_records'[b].commands = p.commands
                      /\ building_records'[b].estimated_cost = p.estimated_cost]_vars

\* the player made a request, then a newer one of another extent and other
\* requirements, whose plan is the one cached for the player now; the
\* confirmation that has just returned made the record of the older request
C37_Witness ==
    /\ Attempted
    /\ lastAttempt.kind = "confirm"
    /\ lastAttempt.record # 0
    /\ lastAttempt.player_name \in DOMAIN player_requests
    /\ LET record == building_records[lastAttempt.record]
           cached == player_requests[lastAttempt.player_name]
       IN /\ cached.size # record.size
          /\ cached.requirements # record.requirements
          /\ cached.commands # record.commands
          /\ \E r \in DOMAIN request_positions :
                RequestData(request_positions[r]) = RequestData(cached)

\* the confirmation of a generated plan that has just returned rejected a
\* tracked request id: the balance was below the cost or the debit failed
Rejected ==
    /\ Attempted
    /\ lastAttempt.kind = "confirm"
    /\ lastAttempt.tracked
    /\ lastAttempt.msgs \in {<<MsgInsufficientFunds>>, <<MsgDebitFailed>>}
\* panel p may be the one whose button was pressed last
PressedLast(p) ==
    /\ p.record = NoRecord
    /\ p.player_name = lastAttempt.player_name
    /\ p.estimated_cost = lastAttempt.estimated_cost
    /\ p.request_id \in DOMAIN request_positions
\* The ledger working: both calls of the economy plugin return.
LedgerWorks == [get |-> TRUE, change |-> TRUE]
\* the stores as they are, the player's balance raised to the cost when it
\* is below it
WithFunds(p) ==
    [Cur EXCEPT !.money[p.player_name] = IF @ < p.estimated_cost THEN p.estimated_cost ELSE @]
\* with the ledger working, the handler finds the funds sufficient
FundsSuffice(p) ==
    GetPlayerMoney(WithFunds(p), p.player_name, LedgerWorks) >= p.estimated_cost
\* pressed now, with the ledger working and the funds there, the button of
\* panel p makes the build: the cost is debited, the record created, the
\* request consumed and the player told that the build has started
ConfirmationSucceeds(p) ==
    LET o == ConfirmBuildingOutcome(WithFunds(p), p.player_name, p.commands,
                                    p.estimated_cost, p.request_id, LedgerWorks)
    IN /\ o.debited
       /\ o.record # 0
       /\ o.record \in DOMAIN o.records
       /\ p.request_id \notin DOMAIN o.positions
       /\ o.msgs = <<MsgExecuting, MsgBuildStarted>>
\* the stores a rejected confirmation has to leave alone
RejectionFrame ==
    /\ request_positions' = request_positions
    /\ building_records' = building_records
    /\ building_coordinates' = building_coordinates
    /\ next_building_id' = next_building_id
    /\ panels' = panels

\* C38 as stated.  A confirmation of a tracked request id that is rejected
\* for insufficient funds or for a failed debit leaves the tracked requests
\* and the record store as they were, and a later confirmation of the id
\* with sufficient funds succeeds.  (The first conjunct is about the step
\* that rejects, the second about the state it leaves, from which every
\* later step starts.)
C38_RejectedStaysConfirmable ==
    [][/\ Rejected' => RejectionFrame
       /\ Rejected =>
             \A p \in panels :
                 (PressedLast(p) /\ FundsSuffice(p)) => ConfirmationSucceeds(p)]_vars

\* C38, amended.  A confirmation of a tracked request id that is rejected
\* for insufficient funds or for a failed debit leaves the tracked requests
\* and the record store as they were, and a later confirmation of the id
\* with sufficient funds succeeds when the cost is greater than 0.
C38_RejectedStaysConfirmableAtACost ==
    [][/\ Rejected' => RejectionFrame
       /\ Rejected =>
             \A p \in panels :
                 (PressedLast(p) /\ FundsSuffice(p) /\ p.estimated_cost > 0)
                     => ConfirmationSucceeds(p)]_vars

\* the balance covered a cost greater than 0, the debit call failed and the
\* confirmation was rejected; the request is still tracked and its panel
\* still there
C38_Witness ==
    /\ Rejected
    /\ lastAttempt.msgs = <<MsgDebitFailed>>
    /\ lastAttempt.estimated_cost > 0
    /\ lastAttempt.money_before >= lastAttempt.estimated_cost
    /\ \E p \in panels : PressedLast(p) /\ FundsSuffice(p) /\ ConfirmationSucceeds(p)

\* C39. A confirmation whose cost is zero or negative never succeeds: the
\* step that handles it creates no BuildRecord, starts no execution and
\* leaves the ledger unchanged, whatever the requester's balance.
ConfirmedForNothing ==
    /\ lastAttempt.kind \in {"confirm", "cached"}
    /\ lastAttempt.tracked
    /\ lastAttempt.estimated_cost <= 0

C39_NothingForNothing ==
    [][ConfirmedForNothing' =>
          /\ ~lastAttempt'.debited
          /\ lastAttempt'.record = 0
          /\ ~lastAttempt'.started
          /\ lastAttempt'.msgs = <<MsgDebitFailed>>
          /\ money' = money
          /\ building_records' = building_records
          /\ next_building_id' = next_building_id
          /\ threads' = threads]_vars

\* a plan quoted below 0 was confirmed from its button by a player with
\* money, an economy plugin present, and was refused by the debit step
C39_Witness ==
    /\ ConfirmedForNothing
    /\ lastAttempt.kind = "confirm"
    /\ lastAttempt.estimated_cost < 0
    /\ economy_plugin
    /\ lastAttempt.money_before > 0
    /\ lastAttempt.msgs = <<MsgDebitFailed>>

====
